---- MODULE Spec2Model ----
(***************************************************************************)
(* Verification model of OculusTinyRoomDXR: the DirectX12 frame ring and   *)
(* its fence synchronisation, the MainLoop / Run retry protocol, the       *)
(* global vertex store with its bottom-level acceleration structures, the  *)
(* instance table, and the descriptor handle provider.                     *)
(*                                                                         *)
(* Six specifications share the module:                                    *)
(*   Spec       the program as WinMain runs it (Run -> MainLoop -> frame   *)
(*              loop), CPU steps interleaved with GPU queue execution;     *)
(*   SpecLive   Spec with a GPU that keeps executing and waits that return *)
(*              once their event is signalled;                             *)
(*   SpecStore  a VertexBuffer / Scene under every sequence of appends,    *)
(*              followed by the acceleration-structure builds;             *)
(*   SpecHeap   a DescHandleProvider under every sequence of allocations   *)
(*              and frees;                                                 *)
(*   SpecScene  the instance table, its upload buffer and the scene        *)
(*              constant buffers over the scenes a process builds;         *)
(*   SpecModel  a built scene under the frame loop's instance updates and  *)
(*              the model updates of Scene.                                *)
(***************************************************************************)
EXTENDS Integers, Sequences, FiniteSets, TLC

\* ------------------------------------------------------------ bounds
\* Sub-ranges appended to one VertexBuffer, the constructor's box included.
MaxMeshes == 4
\* Model components constructed for one scene.
MaxComponents == 3
\* Descriptors of the heap under SpecHeap, and frees outstanding at a time.
MaxHandleCount == 3
MaxFreeHandles == 3
\* Frame-loop iterations the window stays open for, over all MainLoop runs.
MaxFrames == 6
\* Invocations of MainLoop by Run before the window is closed.
MaxRuns == 2

\* ------------------------------------------------- program constants
SwapChainNumFrames == 4
DrawContext_EyeRenderLeft == 0
DrawContext_EyeRenderRight == 1
DrawContext_Final == 2
DrawContext_Count == 3
numTextures == 6
\* UINT64(-1): "we never kicked off this frame"
NeverKicked == -1

Slots == 0 .. (SwapChainNumFrames - 1)
Contexts == 0 .. (DrawContext_Count - 1)

OvrResults == {"Success", "DisplayLost", "OtherError"}
OVR_SUCCESS(r) == r = "Success"

NoRes == <<"none", 0>>

VARIABLES
    \* ---- CPU control state
    pc,                     \* position of the single CPU thread
    waitRet,                \* where WaitForGpu returns to
    Running,                \* DirectX12::Running
    runs,                   \* MainLoop invocations so far
    iter,                   \* frame-loop iterations so far
    \* ---- MainLoop locals
    retryCreate, result, ret, sessionStatus, frameIndex, eye,
    texIdx, blasIdx,
    alive,                  \* objects MainLoop currently owns
    transient,              \* live temporary GPU buffers (upload heaps, scratch)
    \* ---- VR runtime
    ovrFrame,               \* frame index between ovr_BeginFrame and ovr_EndFrame, else -1
    ovrLog,                 \* Begin/End calls of the current session
    \* ---- DirectX12 frame ring
    SwapChainFrameIndex, ActiveContext,
    CommandListSubmitted, PresentFenceValue, PresentFenceWaitValue,
    cmdList,                \* commands recorded into each command list
    listOpen,               \* whether each command list is in the recording state
    \* ---- GPU
    queue,                  \* CommandQueue: submitted commands not yet executed
    fenceVal,               \* completed value of each PresentFenceRes
    eventSet,               \* each auto-reset PresentFenceEvent
    eventReg,               \* pending SetEventOnCompletion registrations
    gpuTlas,                \* frame whose TLAS build the GPU executed last
    lastDispatch,           \* the ray dispatch the GPU executed last
    \* ---- VertexBuffer / Scene data
    globalVertices, globalIndices, globalStartVBIndices, globalStartIBIndices, vertexBufferDatas, added,
    numVertexBuffers, m_globalBLAS, models, modelTransforms, instanceDescsArray, numInstances,
    storePhase,
    ModelComponent_numInstances,   \* static UINT ModelComponent::numInstances
    \* ---- Scene buffers
    instanceDescs,          \* contents of the instance-descriptor upload buffer
    dirty,                  \* entries of instanceDescsArray written since the last upload
    m_sceneCB,              \* Scene::m_sceneCB, one element per (eye, ring slot)
    cbGpuAddress,           \* the address DoRaytracing bound last
    \* ---- resource states and command-list states, as the GPU and the API see them
    resState,               \* state each resource is in after the commands executed so far
    hazards,                \* executed transition barriers whose before-state was not the actual one
    listFaults,             \* command-list calls made in a state the API does not allow
    \* ---- render-target-view descriptors
    RtvHandleProvider,      \* DIRECTX.RtvHandleProvider: next, count, free list, capacity
    SwapChainRtvHandle,     \* PerFrameResources[slot].SwapChainRtvHandle
    TexRtv,                 \* pEyeRenderTexture[eye]->TexRtv
    rtvLive,                \* handles RtvHandleProvider returned and nobody freed since
    freeFaults,             \* frees of a handle that was not one of those
    \* ---- DescHandleProvider
    NextAvailableCpuHandle, CurrentHandleCount, FreeHandles, heapLog,
    bufferSRV               \* cpuDescriptorHandle of the global index and vertex buffers

ctlVars == <<pc, waitRet, Running, runs, iter>>
loopVars == <<retryCreate, result, ret, sessionStatus, frameIndex, eye, texIdx, blasIdx,
              alive, transient>>
ovrVars == <<ovrFrame, ovrLog>>
ringVars == <<SwapChainFrameIndex, ActiveContext, CommandListSubmitted,
              PresentFenceValue, PresentFenceWaitValue, cmdList, listOpen>>
gpuVars == <<queue, fenceVal, eventSet, eventReg, gpuTlas, lastDispatch>>
storeVars == <<globalVertices, globalIndices, globalStartVBIndices, globalStartIBIndices, vertexBufferDatas, added,
               numVertexBuffers, m_globalBLAS, models, modelTransforms, instanceDescsArray, numInstances,
               storePhase, ModelComponent_numInstances>>
sceneVars == <<instanceDescs, dirty, m_sceneCB, cbGpuAddress>>
heapVars == <<NextAvailableCpuHandle, CurrentHandleCount, FreeHandles, heapLog, bufferSRV>>
rtvVars == <<RtvHandleProvider, SwapChainRtvHandle, TexRtv, rtvLive, freeFaults>>
trackVars == <<resState, hazards, listFaults, rtvVars>>
vars == <<ctlVars, loopVars, ovrVars, ringVars, gpuVars, storeVars, heapVars, sceneVars,
          trackVars>>

\* ------------------------------------------------------------ GPU
\* One command of a command list, or a queue-level fence signal.
Op(kind, slot, ctx, frame, res) ==
    [kind |-> kind, slot |-> slot, ctx |-> ctx, frame |-> frame, res |-> res,
     val |-> 0, bracketed |-> FALSE, trans |-> <<>>]

SignalOp(slot, value) ==
    [kind |-> "Signal", slot |-> slot, ctx |-> DrawContext_Final, frame |-> -1,
     res |-> NoRes, val |-> value, bracketed |-> FALSE, trans |-> <<>>]

\* ---- resources and their states
\* Textures of one ovrTextureSwapChain (ovr_GetTextureSwapChainLength).
TextureChainLength == 3

\* PerFrameResources[s].SwapChainBuffer
SwapChainBuffer(s) == <<"SwapChainBuffer", s>>
\* ovr_GetMirrorTextureBufferDX(session, mirrorTexture, ..)
mirrorTexRes == <<"mirrorTexRes", 0>>
\* pEyeRenderTexture[e]->TexResource[i] and ->DepthTex[i]
TexResource(e, i) == <<"EyeColorRes", e * TextureChainLength + i>>
DepthTex(e, i) == <<"EyeDepthRes", e * TextureChainLength + i>>
m_raytracingOutputs(c) == <<"m_raytracingOutputs", c>>
m_raytracingDepthOutputs(c) == <<"m_raytracingDepthOutputs", c>>
\* textures[i]->TextureRes and DirectX12::textureArray
TextureRes(i) == <<"texture", i>>
textureArray == <<"textureArray", 0>>

FrameResources ==
    {SwapChainBuffer(s) : s \in Slots} \cup {mirrorTexRes}
    \cup {TexResource(e, i) : e \in 0 .. 1, i \in 0 .. (TextureChainLength - 1)}
    \cup {DepthTex(e, i) : e \in 0 .. 1, i \in 0 .. (TextureChainLength - 1)}
    \cup {m_raytracingOutputs(c) : c \in 0 .. 1}
    \cup {m_raytracingDepthOutputs(c) : c \in 0 .. 1}
TextureResources == {TextureRes(i) : i \in 0 .. (numTextures - 1)} \cup {textureArray}
Resources == FrameResources \cup TextureResources

\* The state a resource is created in.  The swap chain hands out its buffers
\* in COMMON, which is PRESENT; CreateRaytracingOutputResource, Texture::Init
\* (rendertarget = false) and CreateTextureArray name the state themselves;
\* the textures of the VR runtime are in a state the runtime chose.
CreatedState(r) ==
    CASE r[1] = "SwapChainBuffer" -> "PRESENT"
      [] r[1] \in {"m_raytracingOutputs", "m_raytracingDepthOutputs"} -> "UNORDERED_ACCESS"
      [] r[1] \in {"texture", "textureArray"} -> "COPY_DEST"
      [] OTHER -> "RUNTIME"

\* CD3DX12_RESOURCE_BARRIER::Transition(res, before, after)
Transition(res, before, after) == [res |-> res, before |-> before, after |-> after]

\* commandList->ResourceBarrier(n, barriers): one command carrying n transitions.
ResourceBarrier(slot, ctx, barriers) ==
    [Op("Barrier", slot, ctx, -1, NoRes) EXCEPT !.trans = barriers]

\* SwapChain->Present(0, 0), queued behind the lists executed before it.
PresentOp(slot) ==
    [kind |-> "Present", slot |-> slot, ctx |-> DrawContext_Final, frame |-> -1,
     res |-> SwapChainBuffer(slot), val |-> 0, bracketed |-> FALSE, trans |-> <<>>]

\* The transitions of a barrier command whose StateBefore is not the state
\* the resource is in (the state of a runtime-owned texture is not known to
\* the program until its first barrier).
Mismatched(states, op) ==
    {op.trans[k].res : k \in {j \in DOMAIN op.trans :
        /\ states[op.trans[j].res] # "RUNTIME"
        /\ states[op.trans[j].res] # op.trans[j].before}}

\* The state of each resource after a barrier command.
Transitioned(states, op) ==
    [r \in Resources |->
        IF \E k \in DOMAIN op.trans : op.trans[k].res = r
          THEN op.trans[CHOOSE k \in DOMAIN op.trans : op.trans[k].res = r].after
          ELSE states[r]]

\* ID3D12Fence::SetEventOnCompletion: the event is raised at once when the fence
\* has already reached the value, otherwise when the GPU's signal reaches it.
FenceReached(s, v) == fenceVal[s] >= v

\* A SetEventOnCompletion that registers nothing.
RegAfterSet_Dropped(s, v) == eventReg[s]

EventAfterSet(s, v) == IF FenceReached(s, v) THEN TRUE ELSE eventSet[s]
RegAfterSet(s, v) == IF FenceReached(s, v) THEN eventReg[s] ELSE eventReg[s] \cup {v}

\* What the commands the GPU has executed so far have left behind.
GpuState ==
    [fenceVal |-> fenceVal, eventSet |-> eventSet, eventReg |-> eventReg,
     gpuTlas |-> gpuTlas, lastDispatch |-> lastDispatch,
     resState |-> resState, hazards |-> hazards]

\* The GPU executes one command.
GpuCommand(st, op) ==
    [st EXCEPT
       !.fenceVal = IF op.kind = "Signal" THEN [@ EXCEPT ![op.slot] = op.val] ELSE @,
       !.eventSet = IF op.kind = "Signal"
                      THEN [@ EXCEPT ![op.slot] =
                              @ \/ (\E v \in st.eventReg[op.slot] : v <= op.val)]
                      ELSE @,
       !.eventReg = IF op.kind = "Signal"
                      THEN [@ EXCEPT ![op.slot] = {v \in @ : v > op.val}]
                      ELSE @,
       !.gpuTlas = IF op.kind = "BuildTLAS" THEN op.frame ELSE @,
       !.lastDispatch = IF op.kind = "Dispatch"
                          THEN [frame |-> op.frame, eye |-> op.ctx, tlas |-> st.gpuTlas]
                          ELSE @,
       !.resState = IF op.kind = "Barrier" THEN Transitioned(@, op) ELSE @,
       !.hazards =
          CASE op.kind = "Barrier" -> @ \cup Mismatched(st.resState, op)
            [] op.kind = "Present" /\ st.resState[op.res] # "PRESENT" ->
                   @ \cup {<<"Present", op.slot>>}
            [] OTHER -> @]

\* The GPU executes the first n commands of the queue, in order.
GpuCommands(st, n) ==
    LET after[i \in 0 .. n] ==
            IF i = 0
              THEN st
              ELSE CHOOSE next \in {GpuCommand(prev, queue[i]) : prev \in {after[i - 1]}} :
                       TRUE
    IN after[n]

\* Whether two queued commands belong to one executed command list.  Signal
\* and Present are operations of the queue itself.
SameList(a, b) ==
    /\ a.kind \notin {"Signal", "Present"}
    /\ b.kind \notin {"Signal", "Present"}
    /\ a.slot = b.slot
    /\ a.ctx = b.ctx

\* The number of commands at the head of the queue that form one unit of GPU
\* work: a Signal, a Present, or the commands of one command list.
HeadLen ==
    CHOOSE n \in 1 .. Len(queue) :
        /\ \A i \in 2 .. n : SameList(queue[1], queue[i])
        /\ n < Len(queue) => ~SameList(queue[1], queue[n + 1])

\* The GPU executes the work at the head of the queue: the program observes
\* the GPU only through its fences, which only a Signal changes.
GpuStep ==
    /\ queue # <<>>
    /\ LET n == HeadLen
           st == GpuCommands(GpuState, n)
       IN
        /\ queue' = SubSeq(queue, n + 1, Len(queue))
        /\ fenceVal' = st.fenceVal
        /\ eventSet' = st.eventSet
        /\ eventReg' = st.eventReg
        /\ gpuTlas' = st.gpuTlas
        /\ lastDispatch' = st.lastDispatch
        /\ resState' = st.resState
        /\ hazards' = st.hazards
    /\ UNCHANGED <<ctlVars, loopVars, ovrVars, ringVars, storeVars, heapVars, sceneVars,
                   listFaults, rtvVars>>

\* Whether the GPU still has commands of list (s, c) to execute.
InFlight(s, c) == \E i \in DOMAIN queue :
    queue[i].kind \notin {"Signal", "Present"} /\ queue[i].slot = s /\ queue[i].ctx = c

\* ------------------------------------------------- command lists
cur == SwapChainFrameIndex

\* A command recorded at the end of command list c of slot s.
Record(cl, s, c, op) == [cl EXCEPT ![s][c] = Append(@, op)]

\* ExecuteCommandLists: the commands of a closed list join the queue.  Each is
\* stamped with whether the VR frame it belongs to is open at submission.
Executed(q, ops) ==
    q \o [i \in DOMAIN ops |->
            [ops[i] EXCEPT !.bracketed = (ovrFrame >= 0 /\ ovrFrame = ops[i].frame)]]

\* CommandQueue->Signal(PresentFenceRes, PresentFenceValue)
Signalled(q, s) == Append(q, SignalOp(s, PresentFenceValue[s]))

\* A wait that returns without the event.
WaitSatisfied_NoWait(s) == TRUE

\* WaitForSingleObject(PresentFenceEvent, INFINITE) can return.
WaitSatisfied(s) == eventSet[s]

\* ---- the state of a command list, as ID3D12GraphicsCommandList keeps it
\* A call on command list c of slot s.
ListCall(call, s, c) == [call |-> call, slot |-> s, ctx |-> c]
\* Reset(allocator, nullptr); a recording call (a barrier, a copy, a build, a
\* dispatch, SetDescriptorHeaps); Close(); ExecuteCommandLists of the list.
Reset(s, c) == ListCall("Reset", s, c)
Recording(s, c) == ListCall("Record", s, c)
Close(s, c) == ListCall("Close", s, c)
Execute(s, c) == ListCall("Execute", s, c)

\* Reset needs a closed list and opens it; recording and Close need an open
\* one, Close closes it; a list is executed closed.  A call made in the other
\* state fails and leaves the list as it was.
Allowed(open, k) ==
    IF k.call \in {"Record", "Close"} THEN open[k.slot][k.ctx] ELSE ~open[k.slot][k.ctx]

RECURSIVE AfterCalls(_, _)
AfterCalls(st, calls) ==
    IF calls = <<>>
      THEN st
      ELSE LET k == Head(calls)
               ok == Allowed(st.open, k)
           IN  AfterCalls(
                 [open |-> IF ok /\ k.call \in {"Reset", "Close"}
                             THEN [st.open EXCEPT ![k.slot][k.ctx] = (k.call = "Reset")]
                             ELSE st.open,
                  faults |-> IF ok THEN st.faults ELSE st.faults \cup {k}],
                 Tail(calls))

\* The calls a handler makes on the command lists, in order.
ListCalls(calls) ==
    LET st == AfterCalls([open |-> listOpen, faults |-> listFaults], calls) IN
    /\ listOpen' = st.open
    /\ listFaults' = st.faults

\* What SubmitCommandList(c) calls on the list.
SubmitCalls(c) == <<Close(cur, c), Execute(cur, c)>>
\* Reset, record, SubmitCommandList on the Final list: the setup builds.
OneShotCalls ==
    <<Reset(cur, DrawContext_Final), Recording(cur, DrawContext_Final)>>
    \o SubmitCalls(DrawContext_Final)

\* What everything else of trackVars is.
otherTrack == <<resState, hazards, rtvVars>>

\* DirectX12::SubmitCommandList: Close, ExecuteCommandLists, mark submitted.
SubmitCommandList(c, cl, q) ==
    /\ queue' = Executed(q, cl[cur][c])
    /\ CommandListSubmitted' = [CommandListSubmitted EXCEPT ![cur][c] = TRUE]

\* ID3D12Fence::GetCompletedValue
GetCompletedValue(s) == fenceVal[s]

\* The fence kick shared by FillTexture, WaitForGpu and WaitForPreviousFrame:
\*   PresentFenceWaitValue = PresentFenceValue; Signal(fence, it); PresentFenceValue++
KickFence ==
    /\ PresentFenceWaitValue' = [PresentFenceWaitValue EXCEPT ![cur] = PresentFenceValue[cur]]
    /\ PresentFenceValue' = [PresentFenceValue EXCEPT ![cur] = @ + 1]

\* SetEventOnCompletion(PresentFenceWaitValue, PresentFenceEvent) on the current slot,
\* for the value just signalled.
SetEventOnCompletion ==
    /\ eventSet' = [eventSet EXCEPT ![cur] = EventAfterSet(cur, PresentFenceValue[cur])]
    /\ eventReg' = [eventReg EXCEPT ![cur] = RegAfterSet(cur, PresentFenceValue[cur])]

\* DirectX12::WaitForGpu up to its WaitForSingleObject.
WG_Signal ==
    /\ pc = "WG_Signal"
    /\ queue' = Signalled(queue, cur)
    /\ KickFence
    /\ SetEventOnCompletion
    /\ pc' = "WG_Wait"
    /\ UNCHANGED <<waitRet, Running, runs, iter, loopVars, ovrVars, SwapChainFrameIndex,
                   ActiveContext, CommandListSubmitted, cmdList, listOpen, fenceVal,
                   gpuTlas, lastDispatch, storeVars, heapVars, sceneVars, trackVars>>

\* DirectX12::WaitForGpu: the blocking wait on the auto-reset event.
WG_Wait ==
    /\ pc = "WG_Wait"
    /\ WaitSatisfied(cur)
    /\ eventSet' = [eventSet EXCEPT ![cur] = FALSE]
    /\ pc' = waitRet
    /\ UNCHANGED <<waitRet, Running, runs, iter, loopVars, ovrVars, ringVars,
                   queue, fenceVal, eventReg, gpuTlas, lastDispatch, storeVars, heapVars, sceneVars, trackVars>>

\* ------------------------------------------------- global vertex store
BoxVertexCount == 24
BoxIndexCount == 36

\* The index table of AddBoxToGlobal: two triangles per face, six faces.
BoxIndices ==
    << 0, 2, 1,   0, 3, 2,    4, 5, 6,    4, 6, 7,    8, 9, 10,   8, 10, 11,
       12, 14, 13, 12, 15, 14, 16, 18, 17, 16, 19, 18, 20, 21, 22, 20, 22, 23 >>
BoxVertices == [k \in 1 .. BoxVertexCount |-> <<"box", k - 1>>]

\* An offset that ignores what the array already holds.
StartOffset_Zero(arr) == 0

\* x.first = array.size()
StartOffset(arr) == Len(arr)
\* x.second = array.size() - x.first, taken after the push_back loop
CountSince(arr, first) == Len(arr) - first

\* Items put in front of what the array holds.
PushBackAll_Front(arr, items) == items \o arr
\* for (...) arr.push_back(items[i])
PushBackAll(arr, items) == arr \o items

\* The tail shared by AddBoxToGlobal, AddVerticeAndIndicesToGlobal and
\* AddGlobalObj: push the indices, push the vertices, record both sub-ranges.
\* On a VertexBuffer vb it yields the buffer after the append and the pair
\* the call returns (startIndices: first from globalVertices, second from
\* globalIndices, both taken before anything is pushed).
Appended(vb, vertices, indices) ==
    LET ibFirst == StartOffset(vb.globalIndices)
        vbFirst == StartOffset(vb.globalVertices)
        newIndices == PushBackAll(vb.globalIndices, indices)
        newVertices == PushBackAll(vb.globalVertices, vertices)
    IN  [vb |-> [globalIndices |-> newIndices,
                 globalVertices |-> newVertices,
                 globalStartIBIndices |-> Append(vb.globalStartIBIndices,
                     [first |-> ibFirst, second |-> CountSince(newIndices, ibFirst)]),
                 globalStartVBIndices |-> Append(vb.globalStartVBIndices,
                     [first |-> vbFirst, second |-> CountSince(newVertices, vbFirst)]),
                 numVertexBuffers |-> vb.numVertexBuffers + 1],
         startIndices |-> [first |-> StartOffset(vb.globalVertices),
                           second |-> StartOffset(vb.globalIndices)]]

\* Scene::globalVertexBuffer as one value.
globalVertexBuffer ==
    [globalIndices |-> globalIndices, globalVertices |-> globalVertices,
     globalStartIBIndices |-> globalStartIBIndices,
     globalStartVBIndices |-> globalStartVBIndices,
     numVertexBuffers |-> numVertexBuffers]

\* globalVertexBuffer becomes vb.
Becomes(vb) ==
    /\ globalIndices' = vb.globalIndices
    /\ globalVertices' = vb.globalVertices
    /\ globalStartIBIndices' = vb.globalStartIBIndices
    /\ globalStartVBIndices' = vb.globalStartVBIndices
    /\ numVertexBuffers' = vb.numVertexBuffers

AppendToGlobal(vertices, indices) ==
    Becomes(Appended(globalVertexBuffer, vertices, indices).vb)

AddBoxToGlobal == AppendToGlobal(BoxVertices, BoxIndices)
\* vertexBuffer.AddVerticeAndIndicesToGlobal(vertices, indices) on vb.
AddVerticeAndIndicesToGlobal(vb, vertices, indices) == Appended(vb, vertices, indices)

\* How a sub-range came into globalVertexBuffer; refs are the vertices the
\* faces of the file referenced, one per index, for an OBJ import.
AddedBy(who, refs) == [by |-> who, refs |-> refs]

\* The two offsets stored in each other's field.
WithVertexBufferData_Swapped(datas, i, vertexOffset, indexOffset) ==
    [k \in DOMAIN datas \cup {i} |->
        IF k = i THEN [vertexOffset |-> indexOffset, indexOffset |-> vertexOffset]
                 ELSE datas[k]]

\* vertexBufferDatas[i] = {vertexOffset, indexOffset}; an element never
\* assigned holds no defined value and is not in the domain.
WithVertexBufferData(datas, i, vertexOffset, indexOffset) ==
    [k \in DOMAIN datas \cup {i} |->
        IF k = i THEN [vertexOffset |-> vertexOffset, indexOffset |-> indexOffset]
                 ELSE datas[k]]

\* Scene(bool) from AddBoxToGlobal on:
\*   indexData = globalVertexBuffer.AddBoxToGlobal();
\*   vertexBufferDatas[numVertexBuffers - 1] = {indexData.first, indexData.second}
SceneCtor ==
    LET r == Appended(globalVertexBuffer, BoxVertices, BoxIndices) IN
    /\ Becomes(r.vb)
    /\ vertexBufferDatas' = WithVertexBufferData(vertexBufferDatas, r.vb.numVertexBuffers - 1,
                                                 r.startIndices.first, r.startIndices.second)
    /\ added' = Append(added, AddedBy("Scene", <<>>))

\* A geometry description spanning both buffers whole.
GeometryDesc_WholeBuffer(i) ==
    [IndexBuffer  |-> 0, IndexCount  |-> Len(globalIndices),
     VertexBuffer |-> 0, VertexCount |-> Len(globalVertices)]

\* geometryDesc of InitGlobalBottomLevelAccelerationObject for sub-range i
\* (offsets in elements from the start of the index / vertex buffer).
GeometryDesc(i) ==
    [IndexBuffer  |-> globalStartIBIndices[i + 1].first,
     IndexCount   |-> globalStartIBIndices[i + 1].second,
     VertexBuffer |-> globalStartVBIndices[i + 1].first,
     VertexCount  |-> globalStartVBIndices[i + 1].second]

\* The resource AllocateUAVBuffer creates for m_globalBottomLevelAccelerationStructures[i]:
\* a fresh allocation, identified by the order of creation over both
\* VertexBuffer objects of the scene (globalVertexBuffer, aabbVertexBuffer).
FreshAddress == Len(m_globalBLAS.global) + Len(m_globalBLAS.aabb) + 1
NewBlas(i) == [addr |-> FreshAddress, geometry |-> GeometryDesc(i)]
\* InitAABBBottomLevelAccelerationObject: one procedural AABB.
NewAabbBlas == [addr |-> FreshAddress, geometry |-> [AABBCount |-> 1]]
NoBlas == [global |-> <<>>, aabb |-> <<>>]

EmptyStore ==
    /\ globalVertices = <<>>
    /\ globalIndices = <<>>
    /\ globalStartVBIndices = <<>>
    /\ globalStartIBIndices = <<>>
    /\ vertexBufferDatas = <<>>
    /\ added = <<>>
    /\ numVertexBuffers = 0
    /\ m_globalBLAS = NoBlas
    /\ models = <<>>
    /\ modelTransforms = <<>>
    /\ instanceDescsArray = <<>>
    /\ numInstances = 0
    /\ ModelComponent_numInstances = 0

\* delete scene: the Scene and its VertexBuffers are gone.
DeleteScene ==
    /\ globalVertices' = <<>>
    /\ globalIndices' = <<>>
    /\ globalStartVBIndices' = <<>>
    /\ globalStartIBIndices' = <<>>
    /\ vertexBufferDatas' = <<>>
    /\ added' = <<>>
    /\ numVertexBuffers' = 0
    /\ m_globalBLAS' = NoBlas
    /\ models' = <<>>
    /\ modelTransforms' = <<>>
    /\ instanceDescsArray' = <<>>
    /\ numInstances' = 0
    /\ ModelComponent_numInstances' = ModelComponent_numInstances

\* ---- Scene constant buffers
\* m_sceneCB[e][f] as element e * SwapChainNumFrames + f of the array's storage.
SceneCBSlots == 0 .. (2 * SwapChainNumFrames - 1)
\* A SceneConstantBuffer no DoRaytracing has written: eyePosition as it was
\* allocated, no instance data copied in, nothing written into it from the
\* element before it.
FreshSceneCB == [eyePosition |-> 0, instanceData |-> 0, overrun |-> 0]
NoAddress == [buffer |-> -1, offset |-> 0]
\* No Scene exists: no upload buffer, no constant buffers.
EmptyScene ==
    /\ instanceDescs = <<>>
    /\ dirty = {}
    /\ m_sceneCB = [s \in SceneCBSlots |-> FreshSceneCB]
    /\ cbGpuAddress = NoAddress

NoHeapOp == [op |-> "none", handle |-> 0]
\* A D3DBuffer no SRV was created for.
NoHandle == -1

EmptyHeap ==
    /\ NextAvailableCpuHandle = 0
    /\ CurrentHandleCount = 0
    /\ FreeHandles = <<>>
    /\ heapLog = <<NoHeapOp, NoHeapOp>>
    /\ bufferSRV = [ib |-> NoHandle, vb |-> NoHandle]

\* The descriptor size the device reports for the heap type.
IncrementSize == 32

PickFree_Front(free) == free[1]
\* FreeHandles.back()
PickFree(free) == free[Len(free)]

HasCapacity_OffByOne(count) == count <= MaxHandleCount
\* VALIDATE((CurrentHandleCount < MaxHandleCount), ...)
HasCapacity(count) == count < MaxHandleCount

\* DescHandleProvider::AllocCpuHandle(&descriptorIndex) on provider p, where
\* descriptorIndex held the value undef before the call: the index is written
\* on the watermark path only.
AllocCpuHandle(p, undef) ==
    IF Len(p.free) > 0
      THEN [ok |-> TRUE, handle |-> PickFree(p.free), index |-> undef,
            p |-> [p EXCEPT !.free = SubSeq(p.free, 1, Len(p.free) - 1)]]
      ELSE IF p.count < p.max
             THEN [ok |-> TRUE, handle |-> p.next, index |-> p.count,
                   p |-> [p EXCEPT !.next = p.next + IncrementSize,
                                   !.count = p.count + 1]]
             ELSE [ok |-> FALSE, handle |-> NoHandle, index |-> undef, p |-> p]

\* DescHandleProvider::FreeCpuHandle on provider p.
FreeCpuHandle(p, handle) == [p EXCEPT !.free = Append(@, handle)]

\* ---- RtvHandleProvider and the handles taken from it
maxConcurrentDescriptors == 10
\* DIRECTX is a static object: before the first InitDevice the provider and
\* every SwapChainRtvHandle are zero.
ZeroProvider == [next |-> NoHandle, count |-> 0, free |-> <<>>, max |-> 0]
\* RtvHandleProvider = DescHandleProvider(RtvHeap, .., rtvHeapDesc.NumDescriptors)
NewRtvProvider ==
    [next |-> 0, count |-> 0, free |-> <<>>,
     max |-> SwapChainNumFrames * maxConcurrentDescriptors]

\* n calls of AllocCpuHandle() in a row: the provider after them, the handles
\* returned, in order.  (The heap is never exhausted by the frame slots and
\* the eye textures, so VALIDATE does not fire.)
RECURSIVE AllocHandles(_, _)
AllocHandles(p, n) ==
    IF n = 0
      THEN [p |-> p, handles |-> <<>>]
      ELSE LET a == AllocCpuHandle(p, 0)
               rest == AllocHandles(a.p, n - 1)
           IN  [p |-> rest.p, handles |-> <<a.handle>> \o rest.handles]

\* FreeCpuHandle of each handle in turn by caller who.  live are the handles
\* the provider returned and that were not freed since; a free of any other
\* handle is recorded in faults.
RECURSIVE FreeHandlesOf(_, _, _)
FreeHandlesOf(st, who, handles) ==
    IF handles = <<>>
      THEN st
      ELSE LET h == Head(handles) IN
           FreeHandlesOf([p |-> FreeCpuHandle(st.p, h),
                          live |-> st.live \ {h},
                          faults |-> IF h \in st.live THEN st.faults
                                     ELSE st.faults \cup {<<who, h>>}],
                         who, Tail(handles))

\* ------------------------------------------------- initial state
NoStatus == [ShouldQuit |-> FALSE, IsVisible |-> FALSE]
NoDispatch == [frame |-> -2, eye |-> 0, tlas |-> -2]

\* The process when WinMain calls Run: the window exists, DIRECTX is a
\* zero-initialised static object, nothing has been created.
Created ==
    /\ waitRet = "Run"
    /\ Running = TRUE
    /\ runs = 0
    /\ iter = 0
    /\ retryCreate = TRUE
    /\ result = "Success"
    /\ ret = TRUE
    /\ sessionStatus = NoStatus
    /\ frameIndex = 0
    /\ eye = 0
    /\ texIdx = 0
    /\ blasIdx = 0
    /\ alive = {}
    /\ transient = {}
    /\ ovrFrame = -1
    /\ ovrLog = <<>>
    /\ SwapChainFrameIndex = 0
    /\ ActiveContext = DrawContext_Count
    /\ CommandListSubmitted = [s \in Slots |-> [c \in Contexts |-> FALSE]]
    /\ PresentFenceValue = [s \in Slots |-> 0]
    /\ PresentFenceWaitValue = [s \in Slots |-> 0]
    /\ cmdList = [s \in Slots |-> [c \in Contexts |-> <<>>]]
    /\ listOpen = [s \in Slots |-> [c \in Contexts |-> FALSE]]
    /\ queue = <<>>
    /\ fenceVal = [s \in Slots |-> 0]
    /\ eventSet = [s \in Slots |-> FALSE]
    /\ eventReg = [s \in Slots |-> {}]
    /\ gpuTlas = -2
    /\ lastDispatch = NoDispatch
    /\ EmptyStore
    /\ EmptyHeap
    /\ EmptyScene
    /\ resState = [r \in Resources |-> CreatedState(r)]
    /\ hazards = {}
    /\ listFaults = {}
    /\ RtvHandleProvider = ZeroProvider
    /\ SwapChainRtvHandle = [s \in Slots |-> NoHandle]
    /\ TexRtv = [e \in 0 .. 1 |-> <<>>]
    /\ rtvLive = {}
    /\ freeFaults = {}

Init ==
    /\ Created
    /\ pc = "Run"
    /\ storePhase = "program"

\* ------------------------------------------------- Run and MainLoop entry
\* DirectX12::HandleMessages: pumps the window messages, any of which may
\* close the window (WindowProc clears Running), and returns Running.  Past
\* the bound the user closes the window.
HandleMessages(mustClose) ==
    /\ Running' \in (IF Running /\ ~mustClose THEN {TRUE, FALSE} ELSE {FALSE})

\* DirectX12::Run: while (HandleMessages()) { if (!MainLoop(true)) break; Sleep(10); }
Run_HandleMessages ==
    /\ pc = "Run"
    /\ HandleMessages(runs >= MaxRuns)
    /\ pc' = IF Running' THEN "ML_Create" ELSE "Run_Exit"
    /\ UNCHANGED <<waitRet, runs, iter, loopVars, ovrVars, ringVars, gpuVars, storeVars, heapVars, sceneVars, trackVars>>

\* MainLoop entry: ovr_Create; on failure "return retryCreate".
ML_Create ==
    /\ pc = "ML_Create"
    /\ runs' = runs + 1
    /\ retryCreate' = TRUE
    /\ frameIndex' = 0
    /\ \E r \in OvrResults :
        /\ result' = r
        /\ IF OVR_SUCCESS(r)
             THEN /\ alive' = {"session"}
                  /\ pc' = "ML_InitDevice"
                  /\ ret' = ret
             ELSE /\ alive' = alive
                  /\ ret' = TRUE
                  /\ pc' = "Run_AfterMainLoop"
    /\ UNCHANGED <<waitRet, Running, iter, sessionStatus, eye, texIdx, blasIdx, transient,
                   ovrVars, ringVars, gpuVars, storeVars, heapVars, sceneVars, trackVars>>

\* DirectX12::InitDevice: fails only when the window cannot be placed; otherwise
\* creates the queue, the swap chain and the four frame slots.  PresentFenceValue
\* is not assigned: it keeps what the previous run left.  Every resource the
\* run creates from here on is a new one, in the state it is created in.
ML_InitDevice ==
    /\ pc = "ML_InitDevice"
    /\ \E ok \in BOOLEAN :
        IF ok
          THEN /\ alive' = alive \cup {"device"}
               /\ SwapChainFrameIndex' = 0
               /\ CommandListSubmitted' = [s \in Slots |-> [c \in Contexts |-> TRUE]]
               /\ PresentFenceWaitValue' = [s \in Slots |-> NeverKicked]
               /\ cmdList' = [s \in Slots |-> [c \in Contexts |-> <<>>]]
               /\ listOpen' = [s \in Slots |-> [c \in Contexts |-> FALSE]]
               /\ queue' = <<>>
               /\ fenceVal' = [s \in Slots |-> 0]
               /\ eventSet' = [s \in Slots |-> FALSE]
               /\ eventReg' = [s \in Slots |-> {}]
               /\ resState' = [r \in Resources |-> CreatedState(r)]
               /\ LET a == AllocHandles(NewRtvProvider, SwapChainNumFrames) IN
                    /\ RtvHandleProvider' = a.p
                    /\ SwapChainRtvHandle' = [s \in Slots |-> a.handles[s + 1]]
                    /\ rtvLive' = {a.handles[k] : k \in DOMAIN a.handles}
               /\ pc' = "ML_EyeTex"
          ELSE /\ pc' = "Done"
               /\ UNCHANGED <<alive, SwapChainFrameIndex, CommandListSubmitted,
                              PresentFenceWaitValue, cmdList, listOpen, queue, fenceVal,
                              eventSet, eventReg, resState, RtvHandleProvider,
                              SwapChainRtvHandle, rtvLive>>
    /\ UNCHANGED <<waitRet, Running, runs, iter, retryCreate, result, ret, sessionStatus,
                   frameIndex, eye, texIdx, blasIdx, transient, ovrVars, ActiveContext,
                   PresentFenceValue, gpuTlas, lastDispatch, storeVars, heapVars, sceneVars,
                   hazards, listFaults, TexRtv, freeFaults>>

\* The eye render textures (both eyes): on failure "if (retryCreate) goto Done",
\* otherwise FATALERROR ends the process.
\* An eye's Init fails at ovr_CreateTextureSwapChainDX, before any view is
\* created; made is the number of eyes whose Init returned true, each with
\* one render-target view per texture of its chain.
ML_EyeTex ==
    /\ pc = "ML_EyeTex"
    /\ alive' = alive \cup {"eyeTex"}
    /\ \E made \in 0 .. 2 :
        LET a == AllocHandles(RtvHandleProvider, made * TextureChainLength) IN
        /\ RtvHandleProvider' = a.p
        /\ TexRtv' = [e \in 0 .. 1 |->
                        IF e < made
                          THEN SubSeq(a.handles, e * TextureChainLength + 1,
                                      (e + 1) * TextureChainLength)
                          ELSE <<>>]
        /\ rtvLive' = rtvLive \cup {a.handles[k] : k \in DOMAIN a.handles}
        /\ pc' = IF made = 2 THEN "ML_Mirror" ELSE IF retryCreate THEN "Done" ELSE "Fatal"
    /\ UNCHANGED <<waitRet, Running, runs, iter, retryCreate, result, ret, sessionStatus,
                   frameIndex, eye, texIdx, blasIdx, transient, ovrVars, ringVars, gpuVars,
                   storeVars, heapVars, sceneVars, resState, hazards, listFaults,
                   SwapChainRtvHandle, freeFaults>>

\* ovr_CreateMirrorTextureDX; on failure the same exit.  On success the scene
\* is constructed next, starting with the default textures.
ML_Mirror ==
    /\ pc = "ML_Mirror"
    /\ \E r \in OvrResults :
        /\ result' = r
        /\ IF OVR_SUCCESS(r)
             THEN /\ alive' = alive \cup {"mirror", "scene"}
                  /\ pc' = "FT_Upload"
             ELSE /\ alive' = alive
                  /\ pc' = IF retryCreate THEN "Done" ELSE "Fatal"
    /\ texIdx' = 0
    /\ UNCHANGED <<waitRet, Running, runs, iter, retryCreate, ret, sessionStatus,
                   frameIndex, eye, blasIdx, transient, ovrVars, ringVars, gpuVars,
                   storeVars, heapVars, sceneVars, trackVars>>

\* ------------------------------------------------- scene setup
\* Texture::FillTexture (one mip level, the last one): reset the Final list,
\* record the copy from a new upload heap and the texture's transition to
\* COMMON, execute, kick the fence, and wait only
\*   if (GetCompletedValue() < PresentFenceWaitValue).
FT_Upload ==
    /\ pc = "FT_Upload"
    /\ LET heap == <<"upload", texIdx>>
           list == <<Op("Copy", cur, DrawContext_Final, -1, heap),
                     ResourceBarrier(cur, DrawContext_Final,
                         <<Transition(TextureRes(texIdx), "COPY_DEST", "COMMON")>>)>>
       IN  /\ transient' = transient \cup {heap}
           /\ cmdList' = [cmdList EXCEPT ![cur][DrawContext_Final] = list]
           /\ ListCalls(OneShotCalls)
           /\ queue' = Signalled(Executed(queue, list), cur)
    /\ KickFence
    /\ IF GetCompletedValue(cur) < PresentFenceValue[cur]
         THEN /\ SetEventOnCompletion
              /\ pc' = "FT_Wait"
         ELSE /\ UNCHANGED <<eventSet, eventReg>>
              /\ pc' = "FT_Release"
    /\ UNCHANGED <<waitRet, Running, runs, iter, retryCreate, result, ret, sessionStatus,
                   frameIndex, eye, texIdx, blasIdx, alive, ovrVars, SwapChainFrameIndex,
                   ActiveContext, CommandListSubmitted, fenceVal, gpuTlas, lastDispatch,
                   storeVars, heapVars, sceneVars, otherTrack>>

FT_Wait ==
    /\ pc = "FT_Wait"
    /\ WaitSatisfied(cur)
    /\ eventSet' = [eventSet EXCEPT ![cur] = FALSE]
    /\ pc' = "FT_Release"
    /\ UNCHANGED <<waitRet, Running, runs, iter, loopVars, ovrVars, ringVars,
                   queue, fenceVal, eventReg, gpuTlas, lastDispatch, storeVars, heapVars, sceneVars, trackVars>>

\* FillTexture's tail: the upload heaps are released and the next default
\* texture follows (Scene::CreateDefaultTextures).
FT_Release ==
    /\ pc = "FT_Release"
    /\ transient' = transient \ {<<"upload", texIdx>>}
    /\ texIdx' = texIdx + 1
    /\ pc' = IF texIdx + 1 < numTextures THEN "FT_Upload" ELSE "Scene_Construct"
    /\ UNCHANGED <<waitRet, Running, runs, iter, retryCreate, result, ret, sessionStatus,
                   frameIndex, eye, blasIdx, alive, ovrVars, ringVars, gpuVars,
                   storeVars, heapVars, sceneVars, trackVars>>

\* The rest of Scene(bool) (constant buffers, the unit box) and SceneSphere::Init
\* up to InitGlobalVertexBuffers.
Scene_Construct ==
    /\ pc = "Scene_Construct"
    /\ SceneCtor
    /\ blasIdx' = 0
    /\ pc' = IF Len(globalStartIBIndices') > 0 THEN "BL_Build" ELSE "AABB_Build"
    /\ UNCHANGED <<waitRet, Running, runs, iter, retryCreate, result, ret, sessionStatus,
                   frameIndex, eye, texIdx, alive, transient, ovrVars, ringVars, gpuVars,
                   m_globalBLAS, models, modelTransforms, instanceDescsArray, numInstances, ModelComponent_numInstances, storePhase,
                   heapVars, sceneVars, trackVars>>

\* One iteration of InitGlobalBottomLevelAccelerationObject up to WaitForGpu.
BL_Build ==
    /\ pc = "BL_Build"
    /\ LET scratch == <<"scratch", blasIdx>>
           list == <<Op("BuildBLAS", cur, DrawContext_Final, -1, scratch)>>
       IN  /\ transient' = transient \cup {scratch}
           /\ m_globalBLAS' = [m_globalBLAS EXCEPT !.global = Append(@, NewBlas(blasIdx))]
           /\ cmdList' = [cmdList EXCEPT ![cur][DrawContext_Final] = list]
           /\ SubmitCommandList(DrawContext_Final, cmdList', queue)
    /\ ListCalls(OneShotCalls)
    /\ pc' = "WG_Signal"
    /\ waitRet' = "BL_Release"
    /\ UNCHANGED <<Running, runs, iter, retryCreate, result, ret, sessionStatus,
                   frameIndex, eye, texIdx, blasIdx, alive, ovrVars, SwapChainFrameIndex,
                   ActiveContext, PresentFenceValue, PresentFenceWaitValue, fenceVal,
                   eventSet, eventReg, gpuTlas, lastDispatch,
                   globalVertices, globalIndices, globalStartVBIndices, globalStartIBIndices, vertexBufferDatas, added,
                   numVertexBuffers, models, modelTransforms, instanceDescsArray, numInstances, ModelComponent_numInstances, storePhase,
                   heapVars, sceneVars, otherTrack>>

\* scratchResource->Release() and the loop increment.
BL_Release ==
    /\ pc = "BL_Release"
    /\ transient' = transient \ {<<"scratch", blasIdx>>}
    /\ blasIdx' = blasIdx + 1
    /\ pc' = IF blasIdx + 1 < Len(globalStartIBIndices) THEN "BL_Build" ELSE "AABB_Build"
    /\ UNCHANGED <<waitRet, Running, runs, iter, retryCreate, result, ret, sessionStatus,
                   frameIndex, eye, texIdx, alive, ovrVars, ringVars, gpuVars,
                   storeVars, heapVars, sceneVars, trackVars>>

\* InitAABBBottomLevelAccelerationObject of the sphere's VertexBuffer.
AABB_Build ==
    /\ pc = "AABB_Build"
    /\ LET scratch == <<"aabbScratch", 0>>
           list == <<Op("BuildBLAS", cur, DrawContext_Final, -1, scratch)>>
       IN  /\ transient' = transient \cup {scratch}
           /\ m_globalBLAS' = [m_globalBLAS EXCEPT !.aabb = Append(@, NewAabbBlas)]
           /\ cmdList' = [cmdList EXCEPT ![cur][DrawContext_Final] = list]
           /\ SubmitCommandList(DrawContext_Final, cmdList', queue)
    /\ ListCalls(OneShotCalls)
    /\ pc' = "WG_Signal"
    /\ waitRet' = "AABB_Release"
    /\ UNCHANGED <<Running, runs, iter, retryCreate, result, ret, sessionStatus,
                   frameIndex, eye, texIdx, blasIdx, alive, ovrVars, SwapChainFrameIndex,
                   ActiveContext, PresentFenceValue, PresentFenceWaitValue, fenceVal,
                   eventSet, eventReg, gpuTlas, lastDispatch,
                   globalVertices, globalIndices, globalStartVBIndices, globalStartIBIndices, vertexBufferDatas, added,
                   numVertexBuffers, models, modelTransforms, instanceDescsArray, numInstances, ModelComponent_numInstances, storePhase,
                   heapVars, sceneVars, otherTrack>>

AABB_Release ==
    /\ pc = "AABB_Release"
    /\ transient' = transient \ {<<"aabbScratch", 0>>}
    /\ pc' = "BAS_Build"
    /\ UNCHANGED <<waitRet, Running, runs, iter, retryCreate, result, ret, sessionStatus,
                   frameIndex, eye, texIdx, blasIdx, alive, ovrVars, ringVars, gpuVars,
                   storeVars, heapVars, sceneVars, trackVars>>

\* Scene::BuildAccelerationStructures: the first top-level build, on the Final
\* list, submitted and waited for.
BAS_Build ==
    /\ pc = "BAS_Build"
    /\ LET list == <<Op("BuildTLAS", cur, DrawContext_Final, -1, NoRes)>>
       IN  /\ cmdList' = [cmdList EXCEPT ![cur][DrawContext_Final] = list]
           /\ SubmitCommandList(DrawContext_Final, cmdList', queue)
    /\ ListCalls(OneShotCalls)
    /\ pc' = "WG_Signal"
    /\ waitRet' = "ML_InitFrame"
    /\ UNCHANGED <<Running, runs, iter, loopVars, ovrVars, SwapChainFrameIndex,
                   ActiveContext, PresentFenceValue, PresentFenceWaitValue, fenceVal,
                   eventSet, eventReg, gpuTlas, lastDispatch, storeVars, heapVars, sceneVars, otherTrack>>

\* ------------------------------------------------- frame ring
\* DirectX12::InitFrame(finalContextUsed = true): InitCommandList for each
\* context of the current slot.  A list that was submitted has its allocator
\* and itself reset; one that was not is left as it is.  Then the back
\* buffer's transition out of PRESENT is recorded on the Final list.
InitCommandList_Always(c) == TRUE
\* InitCommandList(c) resets: if (currFrameRes.CommandListSubmitted[context])
InitCommandList(c) == CommandListSubmitted[cur][c]

InitFrame ==
    /\ cmdList' = [cmdList EXCEPT ![cur] =
           [c \in Contexts |->
              (IF InitCommandList(c) THEN <<>> ELSE cmdList[cur][c])
              \o (IF c = DrawContext_Final
                    THEN <<ResourceBarrier(cur, c,
                             <<Transition(SwapChainBuffer(cur), "PRESENT", "RENDER_TARGET")>>)>>
                    ELSE <<>>)]]
    /\ CommandListSubmitted' = [CommandListSubmitted EXCEPT ![cur] = [c \in Contexts |-> FALSE]]

\* The list calls of InitFrame: for each context in turn, Reset and
\* SetDescriptorHeaps if InitCommandList resets; then the barrier on Final.
RECURSIVE InitCommandListCalls(_)
InitCommandListCalls(c) ==
    IF c >= DrawContext_Count
      THEN <<>>
      ELSE (IF InitCommandList(c) THEN <<Reset(cur, c), Recording(cur, c)>> ELSE <<>>)
           \o InitCommandListCalls(c + 1)
InitFrameCalls == InitCommandListCalls(0) \o <<Recording(cur, DrawContext_Final)>>

\* MainLoop: new Camera; DIRECTX.InitFrame(drawMirror)
ML_InitFrame ==
    /\ pc = "ML_InitFrame"
    /\ InitFrame
    /\ ListCalls(InitFrameCalls)
    /\ pc' = "ML_TexArray"
    /\ UNCHANGED <<waitRet, Running, runs, iter, loopVars, ovrVars, SwapChainFrameIndex,
                   ActiveContext, PresentFenceValue, PresentFenceWaitValue, gpuVars,
                   storeVars, heapVars, sceneVars, otherTrack>>

\* Scene::InitTexturesToTexArray: one CopyTextureSubresource per texture,
\* recorded on CommandLists[0] of the current slot.
\* DirectX12::CopyTextureSubresource: four barrier commands around the copy.
CopyTextureSubresource(slot, ctx, srcResource) ==
    << ResourceBarrier(slot, ctx, <<Transition(srcResource, "COMMON", "COPY_SOURCE")>>),
       ResourceBarrier(slot, ctx,
           <<Transition(textureArray, "NON_PIXEL_SHADER_RESOURCE", "COPY_DEST")>>),
       Op("TexArrayCopy", slot, ctx, -1, srcResource),
       ResourceBarrier(slot, ctx,
           <<Transition(textureArray, "COPY_DEST", "NON_PIXEL_SHADER_RESOURCE")>>),
       ResourceBarrier(slot, ctx, <<Transition(srcResource, "COPY_SOURCE", "COMMON")>>) >>

RECURSIVE CopiesFrom(_)
CopiesFrom(i) ==
    IF i >= numTextures THEN <<>>
    ELSE CopyTextureSubresource(cur, DrawContext_EyeRenderLeft, TextureRes(i))
         \o CopiesFrom(i + 1)
TexArrayCopies == CopiesFrom(0)

\* What a native creation call may return.
CreationResults == {"S_OK", "E_OUTOFMEMORY"}

\* InitTexturesToTexArray, first statement: DirectX12::CreateTextureArray.
\* The HRESULT of CreateCommittedResource is dropped; on failure the ComPtr
\* textureArray is null, a view of the null resource is created, and the
\* function returns.
ML_TexArray ==
    /\ pc = "ML_TexArray"
    /\ \E hr \in CreationResults :
         alive' = IF hr = "S_OK" THEN alive \cup {"textureArray"} ELSE alive
    /\ pc' = "ML_TexCopies"
    /\ UNCHANGED <<waitRet, Running, runs, iter, retryCreate, result, ret, sessionStatus,
                   frameIndex, eye, texIdx, blasIdx, transient, ovrVars, ringVars, gpuVars,
                   storeVars, heapVars, sceneVars, trackVars>>

\* The loop of InitTexturesToTexArray: CopyTextureSubresource starts with
\* textureArray->GetDesc(), which through a null ComPtr is an access violation.
ML_TexCopies ==
    /\ pc = "ML_TexCopies"
    /\ IF "textureArray" \in alive
         THEN /\ cmdList' = [cmdList EXCEPT ![cur][DrawContext_EyeRenderLeft] =
                                 @ \o TexArrayCopies]
              /\ ListCalls(<<Recording(cur, DrawContext_EyeRenderLeft)>>)
              /\ pc' = "L_HandleMessages"
         ELSE /\ cmdList' = cmdList
              /\ UNCHANGED <<listOpen, listFaults>>
              /\ pc' = "Crashed"
    /\ UNCHANGED <<waitRet, Running, runs, iter, loopVars, ovrVars, SwapChainFrameIndex,
                   ActiveContext, CommandListSubmitted, PresentFenceValue,
                   PresentFenceWaitValue, gpuVars, storeVars, heapVars, sceneVars, otherTrack>>

\* while (DIRECTX.HandleMessages())
L_HandleMessages ==
    /\ pc = "L_HandleMessages"
    /\ HandleMessages(iter >= MaxFrames)
    /\ pc' = IF Running' THEN "L_Status" ELSE "Done"
    /\ UNCHANGED <<waitRet, runs, iter, loopVars, ovrVars, ringVars, gpuVars, storeVars, heapVars, sceneVars, trackVars>>

\* ovr_GetSessionStatus; ShouldQuit clears retryCreate and leaves the loop.
L_Status ==
    /\ pc = "L_Status"
    /\ iter' = iter + 1
    /\ \E st \in [ShouldQuit : BOOLEAN, IsVisible : BOOLEAN] :
        /\ sessionStatus' = st
        /\ IF st.ShouldQuit
             THEN /\ retryCreate' = FALSE
                  /\ pc' = "Done"
             ELSE /\ retryCreate' = retryCreate
                  /\ pc' = IF st.IsVisible THEN "L_Begin" ELSE "L_Mirror"
    /\ UNCHANGED <<waitRet, Running, runs, result, ret, frameIndex, eye, texIdx, blasIdx,
                   alive, transient, ovrVars, ringVars, gpuVars, storeVars, heapVars, sceneVars, trackVars>>

\* ovr_WaitToBeginFrame / ovr_BeginFrame, the camera and instance updates,
\* UpdateInstanceDescs and UpdateTLAS: the top-level rebuild is recorded on
\* the Final list of the current slot.
L_Begin ==
    /\ pc = "L_Begin"
    /\ ovrFrame' = frameIndex
    /\ ovrLog' = Append(ovrLog, <<"Begin", frameIndex>>)
    /\ cmdList' = Record(cmdList, cur, DrawContext_Final,
                         Op("BuildTLAS", cur, DrawContext_Final, frameIndex, NoRes))
    /\ eye' = 0
    /\ ListCalls(<<Recording(cur, DrawContext_Final)>>)
    /\ pc' = "L_Eye"
    /\ UNCHANGED <<waitRet, Running, runs, iter, retryCreate, result, ret, sessionStatus,
                   frameIndex, texIdx, blasIdx, alive, transient, SwapChainFrameIndex,
                   ActiveContext, CommandListSubmitted, PresentFenceValue,
                   PresentFenceWaitValue, gpuVars, storeVars, heapVars, sceneVars, otherTrack>>

\* ovr_GetTextureSwapChainCurrentIndex: each Commit moves a chain on by one,
\* and both chains of both eyes are committed once in every frame that ends.
CurrentIndex == frameIndex % TextureChainLength

\* The eye textures are taken to their render states.
PreRenderBarriers(slot, ctx, color, depth) ==
    << ResourceBarrier(slot, ctx,
           <<Transition(color, "PIXEL_SHADER_RESOURCE", "RENDER_TARGET")>>),
       ResourceBarrier(slot, ctx,
           <<Transition(depth, "PIXEL_SHADER_RESOURCE", "DEPTH_WRITE")>>) >>

\* DirectX12::CopyRaytracingOutputToBackbuffer(renderTarget, depthTarget)
CopyRaytracingOutputToBackbuffer(slot, ctx, renderTarget, depthTarget) ==
    << ResourceBarrier(slot, ctx,
           << Transition(renderTarget, "RENDER_TARGET", "COPY_DEST"),
              Transition(depthTarget, "DEPTH_WRITE", "COPY_DEST"),
              Transition(m_raytracingOutputs(ctx), "UNORDERED_ACCESS", "COPY_SOURCE"),
              Transition(m_raytracingDepthOutputs(ctx), "UNORDERED_ACCESS", "COPY_SOURCE") >>),
       Op("CopyResource", slot, ctx, -1, renderTarget),
       Op("CopyResource", slot, ctx, -1, depthTarget),
       ResourceBarrier(slot, ctx,
           << Transition(renderTarget, "COPY_DEST", "RENDER_TARGET"),
              Transition(depthTarget, "COPY_DEST", "DEPTH_WRITE"),
              Transition(m_raytracingOutputs(ctx), "COPY_SOURCE", "UNORDERED_ACCESS"),
              Transition(m_raytracingDepthOutputs(ctx), "COPY_SOURCE", "UNORDERED_ACCESS") >>) >>

\* An eye pass that leaves the eye textures in their render states.
PostRenderBarriers_Omitted(slot, ctx, color, depth) == <<>>

\* The eye textures are returned to the state the compositor reads them in.
PostRenderBarriers(slot, ctx, color, depth) ==
    << ResourceBarrier(slot, ctx,
           <<Transition(color, "RENDER_TARGET", "PIXEL_SHADER_RESOURCE")>>),
       ResourceBarrier(slot, ctx,
           <<Transition(depth, "DEPTH_WRITE", "PIXEL_SHADER_RESOURCE")>>) >>

\* What one pass of the eye loop records on the eye's list.
EyeCommands(slot, ctx, color, depth) ==
    PreRenderBarriers(slot, ctx, color, depth)
    \o << Op("Dispatch", slot, ctx, frameIndex, NoRes) >>
    \o CopyRaytracingOutputToBackbuffer(slot, ctx, color, depth)
    \o PostRenderBarriers(slot, ctx, color, depth)

\* One eye: SetActiveContext, the barriers, DoRaytracing and the copy recorded
\* on the eye's list, SubmitCommandList(ActiveContext), Commit.
L_Eye ==
    /\ pc = "L_Eye"
    /\ ActiveContext' = eye
    /\ cmdList' = [cmdList EXCEPT ![cur][eye] =
           @ \o EyeCommands(cur, eye, TexResource(eye, CurrentIndex),
                            DepthTex(eye, CurrentIndex))]
    /\ SubmitCommandList(eye, cmdList', queue)
    /\ eye' = eye + 1
    /\ ListCalls(<<Recording(cur, eye)>> \o SubmitCalls(eye))
    /\ pc' = IF eye + 1 < 2 THEN "L_Eye" ELSE "L_EndFrame"
    /\ UNCHANGED <<waitRet, Running, runs, iter, retryCreate, result, ret, sessionStatus,
                   frameIndex, texIdx, blasIdx, alive, transient, ovrVars,
                   SwapChainFrameIndex, PresentFenceValue, PresentFenceWaitValue,
                   fenceVal, eventSet, eventReg, gpuTlas, lastDispatch, storeVars, heapVars, sceneVars, otherTrack>>

\* ovr_EndFrame; "if (!OVR_SUCCESS(result)) goto Done;" frameIndex++
L_EndFrame ==
    /\ pc = "L_EndFrame"
    /\ ovrFrame' = -1
    /\ ovrLog' = Append(ovrLog, <<"End", frameIndex>>)
    /\ \E r \in OvrResults :
        /\ result' = r
        /\ IF OVR_SUCCESS(r)
             THEN /\ frameIndex' = frameIndex + 1
                  /\ pc' = "L_Mirror"
             ELSE /\ frameIndex' = frameIndex
                  /\ pc' = "Done"
    /\ UNCHANGED <<waitRet, Running, runs, iter, retryCreate, ret, sessionStatus, eye,
                   texIdx, blasIdx, alive, transient, ringVars, gpuVars, storeVars, heapVars, sceneVars, trackVars>>

\* if (drawMirror): what the mirror blit records.
MirrorCommands(slot, ctx) ==
    << ResourceBarrier(slot, ctx,
           << Transition(SwapChainBuffer(slot), "RENDER_TARGET", "COPY_DEST"),
              Transition(mirrorTexRes, "RENDER_TARGET", "COPY_SOURCE") >>),
       Op("MirrorCopy", slot, ctx, -1, NoRes),
       ResourceBarrier(slot, ctx,
           <<Transition(mirrorTexRes, "COPY_SOURCE", "RENDER_TARGET")>>) >>

\* The mirror copy, recorded on the Final list.
L_Mirror ==
    /\ pc = "L_Mirror"
    /\ ActiveContext' = DrawContext_Final
    /\ cmdList' = [cmdList EXCEPT ![cur][DrawContext_Final] =
                      @ \o MirrorCommands(cur, DrawContext_Final)]
    /\ ListCalls(<<Recording(cur, DrawContext_Final)>>)
    /\ pc' = "P_Submit"
    /\ UNCHANGED <<waitRet, Running, runs, iter, loopVars, ovrVars, SwapChainFrameIndex,
                   CommandListSubmitted, PresentFenceValue, PresentFenceWaitValue,
                   gpuVars, storeVars, heapVars, sceneVars, otherTrack>>

\* The back buffer's transition recorded before the Final list is closed.
PresentBarrier(slot, ctx) ==
    ResourceBarrier(slot, ctx,
        <<Transition(SwapChainBuffer(slot), "COPY_DEST", "PRESENT")>>)

\* DirectX12::SubmitCommandListAndPresent: the barrier to PRESENT on
\* CommandLists[ActiveContext], SubmitCommandList(Final), Present.
P_Submit ==
    /\ pc = "P_Submit"
    /\ cmdList' = Record(cmdList, cur, ActiveContext, PresentBarrier(cur, ActiveContext))
    /\ queue' = Append(Executed(queue, cmdList'[cur][DrawContext_Final]), PresentOp(cur))
    /\ CommandListSubmitted' = [CommandListSubmitted EXCEPT ![cur][DrawContext_Final] = TRUE]
    /\ ListCalls(<<Recording(cur, ActiveContext)>> \o SubmitCalls(DrawContext_Final))
    /\ pc' = "WPF_Signal"
    /\ UNCHANGED <<waitRet, Running, runs, iter, loopVars, ovrVars, SwapChainFrameIndex,
                   ActiveContext, PresentFenceValue, PresentFenceWaitValue,
                   fenceVal, eventSet, eventReg, gpuTlas, lastDispatch, storeVars, heapVars,
                   sceneVars, otherTrack>>

\* DirectX12::WaitForPreviousFrame up to its wait: kick the fence of the slot
\* just presented, rotate, and wait on the new slot only if it was ever kicked.
WPF_Signal ==
    /\ pc = "WPF_Signal"
    /\ queue' = Signalled(queue, cur)
    /\ KickFence
    /\ SetEventOnCompletion
    /\ SwapChainFrameIndex' = (SwapChainFrameIndex + 1) % SwapChainNumFrames
    /\ pc' = IF PresentFenceWaitValue'[SwapChainFrameIndex'] # NeverKicked
               THEN "WPF_Wait" ELSE "P_InitFrame"
    /\ UNCHANGED <<waitRet, Running, runs, iter, loopVars, ovrVars, ActiveContext,
                   CommandListSubmitted, cmdList, listOpen, fenceVal, gpuTlas,
                   lastDispatch, storeVars, heapVars, sceneVars, trackVars>>

WPF_Wait ==
    /\ pc = "WPF_Wait"
    /\ WaitSatisfied(cur)
    /\ eventSet' = [eventSet EXCEPT ![cur] = FALSE]
    /\ pc' = "P_InitFrame"
    /\ UNCHANGED <<waitRet, Running, runs, iter, loopVars, ovrVars, ringVars,
                   queue, fenceVal, eventReg, gpuTlas, lastDispatch, storeVars, heapVars, sceneVars, trackVars>>

\* SubmitCommandListAndPresent's tail: InitFrame on the slot rotated to.
P_InitFrame ==
    /\ pc = "P_InitFrame"
    /\ InitFrame
    /\ ListCalls(InitFrameCalls)
    /\ pc' = "L_HandleMessages"
    /\ UNCHANGED <<waitRet, Running, runs, iter, loopVars, ovrVars, SwapChainFrameIndex,
                   ActiveContext, PresentFenceValue, PresentFenceWaitValue, gpuVars,
                   storeVars, heapVars, sceneVars, otherTrack>>

\* ------------------------------------------------- teardown and retry
\* Done: delete the camera and the scene, destroy the mirror and eye textures,
\* ReleaseDevice, ovr_Destroy;
\*   return retryCreate || (result == ovrError_DisplayLost);
ReturnValue_DisplayLostOnly(retry, res) == res = "DisplayLost"
ReturnValue_Always(retry, res) == TRUE
ReturnValue(retry, res) == retry \/ (res = "DisplayLost")

Done ==
    /\ pc = "Done"
    /\ alive' = {}
    /\ ret' = ReturnValue(retryCreate, result)
    /\ ovrFrame' = -1
    /\ ovrLog' = <<>>
    /\ queue' = <<>>
    /\ cmdList' = [s \in Slots |-> [c \in Contexts |-> <<>>]]
    /\ listOpen' = [s \in Slots |-> [c \in Contexts |-> FALSE]]
    /\ eventSet' = [s \in Slots |-> FALSE]
    /\ eventReg' = [s \in Slots |-> {}]
    /\ gpuTlas' = -2
    /\ lastDispatch' = NoDispatch
    /\ DeleteScene
    /\ LET st0 == [p |-> RtvHandleProvider, live |-> rtvLive, faults |-> freeFaults]
           st1 == FreeHandlesOf(st0, "~OculusEyeTexture", TexRtv[0] \o TexRtv[1])
           st2 == FreeHandlesOf(st1, "ReleaseDevice",
                                [k \in 1 .. SwapChainNumFrames |-> SwapChainRtvHandle[k - 1]])
       IN  /\ RtvHandleProvider' = st2.p
           /\ rtvLive' = st2.live
           /\ freeFaults' = st2.faults
           /\ TexRtv' = [e \in 0 .. 1 |-> <<>>]
    /\ pc' = "Run_AfterMainLoop"
    /\ UNCHANGED <<waitRet, Running, runs, iter, retryCreate, result, sessionStatus,
                   frameIndex, eye, texIdx, blasIdx, transient, SwapChainFrameIndex,
                   ActiveContext, CommandListSubmitted, PresentFenceValue,
                   PresentFenceWaitValue, fenceVal, storePhase, heapVars, sceneVars,
                   resState, hazards, listFaults, SwapChainRtvHandle>>

\* Run: "if (!MainLoop(true)) break;  Sleep(10);"
Run_AfterMainLoop ==
    /\ pc = "Run_AfterMainLoop"
    /\ pc' = IF ret THEN "Run" ELSE "Run_Exit"
    /\ UNCHANGED <<waitRet, Running, runs, iter, loopVars, ovrVars, ringVars, gpuVars,
                   storeVars, heapVars, sceneVars, trackVars>>

Next ==
    \/ Run_HandleMessages \/ ML_Create \/ ML_InitDevice \/ ML_EyeTex \/ ML_Mirror
    \/ FT_Upload \/ FT_Wait \/ FT_Release \/ Scene_Construct
    \/ BL_Build \/ BL_Release \/ AABB_Build \/ AABB_Release \/ BAS_Build
    \/ WG_Signal \/ WG_Wait
    \/ ML_InitFrame \/ ML_TexArray \/ ML_TexCopies
    \/ L_HandleMessages \/ L_Status \/ L_Begin \/ L_Eye \/ L_EndFrame \/ L_Mirror
    \/ P_Submit \/ WPF_Signal \/ WPF_Wait \/ P_InitFrame
    \/ Done \/ Run_AfterMainLoop
    \/ GpuStep

Spec == Init /\ [][Next]_vars

\* The program with a GPU that eventually executes every queued command, and
\* a thread that leaves WaitForSingleObject once the event stays signalled.
SpecLive ==
    /\ Init /\ [][Next]_vars
    /\ WF_vars(GpuStep)
    /\ WF_vars(WG_Wait) /\ WF_vars(WPF_Wait) /\ WF_vars(FT_Wait)

\* ================================================= properties of Spec
QueueIdx == DOMAIN queue

\* C1: in a visible frame the GPU executes the frame's TLAS rebuild before
\* either eye's ray dispatch of that frame: whenever the GPU has executed a
\* dispatch of frame f, the top-level structure it traced was rebuilt for f.
C1_TlasBeforeDispatch ==
    lastDispatch.frame >= 0 => lastDispatch.tlas = lastDispatch.frame

\* C2: when the ring has rotated onto a slot and InitFrame is about to reset
\* the allocators of its submitted lists, the GPU has completed every command
\* list submitted from that slot.
C2_ResetAfterCompletion ==
    pc = "P_InitFrame" =>
        \A c \in Contexts : CommandListSubmitted[cur][c] => ~InFlight(cur, c)

\* C3: FillTexture releases its upload heap and returns only after the GPU
\* has executed the copy it submitted for that texture.
C3_UploadOutlivesCopy ==
    pc = "FT_Release" =>
        \A i \in QueueIdx : ~(queue[i].kind = "Copy" /\ queue[i].res = <<"upload", texIdx>>)

\* C4: the bottom-level build of a sub-range releases its scratch buffer only
\* after WaitForGpu returned, and WaitForGpu returns only when the GPU has
\* completed the build list submitted before it: a queued build always has
\* its scratch buffer alive, and none is queued when the release is reached.
C4_ScratchOutlivesBuild ==
    /\ \A i \in QueueIdx :
          (queue[i].kind = "BuildBLAS" /\ queue[i].res[1] = "scratch")
              => queue[i].res \in transient
    /\ pc = "BL_Release" => \A i \in QueueIdx : queue[i].kind # "BuildBLAS"

\* The release point of a sub-range's build is reached with the scratch buffer
\* still alive and the BLAS recorded.
C4_Witness ==
    /\ pc = "BL_Release"
    /\ <<"scratch", blasIdx>> \in transient
    /\ Len(m_globalBLAS.global) = blasIdx + 1
    /\ fenceVal[cur] = PresentFenceWaitValue[cur]

\* C5 as stated: MainLoop(true) returns true only if the runtime reported
\* ovrError_DisplayLost.
C5_RetryOnlyOnDisplayLost ==
    (pc = "Run_AfterMainLoop" /\ ret) => result = "DisplayLost"

\* C5 amended: MainLoop(true) returns false exactly when the session asked
\* to quit; every other exit path, whatever the result, requests the retry.
C5_RetryUnlessQuit ==
    pc = "Run_AfterMainLoop" => (ret <=> ~sessionStatus.ShouldQuit)

\* MainLoop returned true although the last result is not a display loss.
C5_Witness ==
    /\ pc = "Run_AfterMainLoop"
    /\ ret
    /\ result = "OtherError"
    /\ runs >= 1

\* C6: once the session reports ShouldQuit or the window is closed the frame
\* loop is left, MainLoop has released the scene, the eye textures, the device
\* and the session when it returns, and Run never enters MainLoop again.
Stopping == sessionStatus.ShouldQuit \/ ~Running
OutsideLoop == pc \in {"Done", "Run_AfterMainLoop", "Run", "Run_Exit"}
C6_QuitAndCloseTerminate ==
    /\ [](Stopping => OutsideLoop)
    /\ [](pc \in {"Run_AfterMainLoop", "Run", "Run_Exit"} => alive = {})
    /\ [][Stopping => pc' # "ML_Create"]_vars

\* Run has returned after a quit request, with the window still open and
\* everything released.
C6_Witness ==
    /\ pc = "Run_Exit"
    /\ sessionStatus.ShouldQuit
    /\ Running
    /\ alive = {}
    /\ frameIndex >= 1

\* C7: every list carrying a visible frame's GPU work is submitted between
\* ovr_BeginFrame and ovr_EndFrame of that frame, and every ovr_BeginFrame is
\* followed by exactly one ovr_EndFrame with the same index.
PairedLog ==
    \A i \in DOMAIN ovrLog :
        /\ (ovrLog[i][1] = "End") => (i > 1 /\ ovrLog[i - 1] = <<"Begin", ovrLog[i][2]>>)
        /\ (ovrLog[i][1] = "Begin" /\ i > 1) => ovrLog[i - 1][1] = "End"
C7_WorkBracketedByFrame ==
    /\ \A i \in QueueIdx : queue[i].frame >= 0 => queue[i].bracketed
    /\ PairedLog

\* C16: every failing native call for resource creation terminates the
\* process: the statement after CreateTextureArray is never reached without
\* the texture array having been created.
C16_FailedCreationTerminates ==
    pc = "ML_TexCopies" => "textureArray" \in alive

\* C17: UpdateInstanceDescs (in the frame's update step) never overwrites the
\* instance-descriptor upload buffer while a TLAS build that reads it is
\* submitted and not yet executed.
C17_NoWriteWhileBuildInFlight ==
    [][(pc = "L_Begin" /\ pc' = "L_Eye") =>
          \A i \in QueueIdx : queue[i].kind # "BuildTLAS"]_vars

\* The transitions a command list carries, in recording order.
RECURSIVE TransitionsOf(_)
TransitionsOf(list) ==
    IF list = <<>> THEN <<>> ELSE Head(list).trans \o TransitionsOf(Tail(list))

\* The state the commands of a list leave resource r in ("untouched" when
\* the list holds no transition of r).
LeftIn(list, r) ==
    LET ts == TransitionsOf(list)
        on == {k \in DOMAIN ts : ts[k].res = r}
    IN  IF on = {} THEN "untouched"
        ELSE ts[CHOOSE k \in on : \A j \in on : j <= k].after

EyeTextures(e) ==
    {TexResource(e, i) : i \in 0 .. (TextureChainLength - 1)}
    \cup {DepthTex(e, i) : i \in 0 .. (TextureChainLength - 1)}

\* C21: for the back buffers, the mirror texture, the eye textures and the
\* ray-tracing outputs, every transition barrier the GPU executes names as
\* its before-state the state the barrier before it left the resource in;
\* an eye list that was submitted leaves every eye texture it touched in
\* PIXEL_SHADER_RESOURCE; and the back buffer is in PRESENT when the queue
\* reaches a Present.
C21_BarriersChain ==
    /\ hazards \cap FrameResources = {}
    /\ \A s \in Slots : <<"Present", s>> \notin hazards
    /\ \A s \in Slots : \A e \in 0 .. 1 :
          CommandListSubmitted[s][e] =>
              \A r \in EyeTextures(e) :
                  LeftIn(cmdList[s][e], r) \in {"untouched", "PIXEL_SHADER_RESOURCE"}

\* Five frames rendered, presented and executed: the ring is on its second
\* lap, back buffer 0 was presented twice, and the eye textures at chain
\* position 1 went through their second render and came back.
C21_Witness ==
    /\ pc = "L_HandleMessages"
    /\ frameIndex = 5
    /\ SwapChainFrameIndex = 1
    /\ queue = <<>>
    /\ resState[SwapChainBuffer(0)] = "PRESENT"
    /\ resState[mirrorTexRes] = "RENDER_TARGET"
    /\ resState[TexResource(0, 1)] = "PIXEL_SHADER_RESOURCE"
    /\ resState[DepthTex(1, 1)] = "PIXEL_SHADER_RESOURCE"
    /\ resState[m_raytracingOutputs(1)] = "UNORDERED_ACCESS"
    /\ CommandListSubmitted[0][DrawContext_EyeRenderRight]
    /\ LeftIn(cmdList[0][DrawContext_EyeRenderRight], DepthTex(1, 1)) = "PIXEL_SHADER_RESOURCE"

\* C24: a handle is pushed onto RtvHandleProvider's free list only if that
\* provider's AllocCpuHandle returned it and nobody freed it since, across the
\* destruction of the eye textures and every call of ReleaseDevice.
C24_OnlyLiveHandlesFreed == freeFaults = {}

\* C25: along setup and the frame loop, iterations in which the session is
\* not visible and the eye lists stay unsubmitted included, a command list is
\* reset only while it is closed and is recorded into, closed or submitted
\* only while it is open (executed once closed by that submit).
C25_ListCallsInState == listFaults = {}

\* The ring is back on slot 0, whose left-eye list was left unsubmitted and
\* open by an iteration that was not visible and was not reset by InitFrame,
\* while the eye lists of slot 3 were submitted and are closed.
C25_Witness ==
    /\ pc = "L_Status"
    /\ SwapChainFrameIndex = 0
    /\ iter = 4
    /\ listOpen[0][DrawContext_EyeRenderLeft]
    /\ ~CommandListSubmitted[0][DrawContext_EyeRenderLeft]
    /\ cmdList[0][DrawContext_EyeRenderLeft] # <<>>
    /\ CommandListSubmitted[3][DrawContext_EyeRenderRight]
    /\ ~listOpen[3][DrawContext_EyeRenderRight]
    /\ listOpen[0][DrawContext_Final]

\* The program counters at which the thread is inside WaitForSingleObject.
FenceWaits == {"FT_Wait", "WG_Wait", "WPF_Wait"}

\* The wait on the current slot's event has its completion: the event is
\* signalled and no wait has consumed it, or a Signal still queued for the
\* slot's fence reaches a value registered with SetEventOnCompletion.
WaitMatched ==
    \/ eventSet[cur]
    \/ \E i \in DOMAIN queue :
          /\ queue[i].kind = "Signal"
          /\ queue[i].slot = cur
          /\ \E v \in eventReg[cur] : v <= queue[i].val

\* C26: with a GPU that eventually completes all submitted work, no fence
\* wait of setup or of the frame loop blocks forever: every wait on a slot's
\* auto-reset event has a completion signal for that slot that no earlier
\* wait consumed, and the thread leaves the wait.
C26_NoWaitBlocksForever ==
    /\ [](pc \in FenceWaits => WaitMatched)
    /\ (pc \in FenceWaits) ~> (pc \notin FenceWaits)

\* The wait of WaitForPreviousFrame on slot 0 after a full lap of the ring,
\* entered before the GPU reached the Signal it waits for.
C26_Witness ==
    /\ pc = "WPF_Wait"
    /\ SwapChainFrameIndex = 0
    /\ iter >= SwapChainNumFrames
    /\ ~eventSet[0]
    /\ eventReg[0] # {}
    /\ queue # <<>>

\* C27: every transition barrier recorded by CopyTextureSubresource names as
\* its before-state the state the resource is in when the GPU executes it,
\* for the texture array (created by CreateTextureArray) and for each source
\* texture (left by Texture::Init and FillTexture), from the first copy on:
\* no executed barrier on one of these resources found it in another state.
C27_CopyBarriersMatch == hazards \cap TextureResources = {}

\* ================================================= SpecStore
\* What AddGlobalObj and InitFromObj make of the face vertices of a file:
\* each vertex not met before is pushed and mapped to its position
\* (uniqueVertices), each face vertex pushes the mapped position.
IndexOfVertex(vertices, v) == (CHOOSE k \in DOMAIN vertices : vertices[k] = v) - 1

RECURSIVE ObjLoad(_, _, _)
ObjLoad(raw, vertices, indices) ==
    IF raw = <<>>
      THEN [vertices |-> vertices, indices |-> indices]
      ELSE LET v == Head(raw) IN
           IF \E k \in DOMAIN vertices : vertices[k] = v
             THEN ObjLoad(Tail(raw), vertices, Append(indices, IndexOfVertex(vertices, v)))
             ELSE ObjLoad(Tail(raw), Append(vertices, v), Append(indices, Len(vertices)))

\* Face-vertex lists of the .obj files given to AddGlobalObj: no face, all
\* vertices distinct, a repeated vertex, one vertex only, two triangles.
ObjFiles ==
    { <<>>,
      << <<"obj", 1>>, <<"obj", 2>>, <<"obj", 3>> >>,
      << <<"obj", 1>>, <<"obj", 2>>, <<"obj", 1>> >>,
      << <<"obj", 1>>, <<"obj", 2>>, <<"obj", 3>>, <<"obj", 3>>, <<"obj", 2>>, <<"obj", 4>> >> }

\* A triangle of a shape: its material id and the three vertices its
\* indices reference in the file's attribute arrays.
Face(material_id, a, b, c) ==
    [material_id |-> material_id,
     vertices |-> << <<"mesh", a>>, <<"mesh", b>>, <<"mesh", c>> >>]

\* The shapes of the .obj files given to AddObjModelToScene: one triangle;
\* two triangles with a shared edge; one shape of two materials; two shapes
\* with a shared edge; two shapes with the same triangle.
ObjModels ==
    { << <<Face(0, 1, 2, 3)>> >>,
      << <<Face(0, 1, 2, 3), Face(0, 1, 3, 4)>> >>,
      << <<Face(0, 1, 2, 3), Face(1, 3, 2, 4)>> >>,
      << <<Face(0, 1, 2, 3)>>, <<Face(0, 3, 2, 4)>> >>,
      << <<Face(0, 1, 2, 3)>>, <<Face(0, 1, 2, 3)>> >> }

\* ---- XMMATRIX: four rows r[0..3] of four numbers, as <<row, row, row, row>>
XMMatrixIdentity == << <<1, 0, 0, 0>>, <<0, 1, 0, 0>>, <<0, 0, 1, 0>>, <<0, 0, 0, 1>> >>
XMMatrixTranspose(M) == [i \in 1 .. 4 |-> [j \in 1 .. 4 |-> M[j][i]]]
XMMatrixMultiply(A, B) ==
    [i \in 1 .. 4 |-> [j \in 1 .. 4 |->
        A[i][1] * B[1][j] + A[i][2] * B[2][j] + A[i][3] * B[3][j] + A[i][4] * B[4][j]]]
Abs(x) == IF x < 0 THEN -x ELSE x
\* ModelComponent::SetAsBox on the identity: position in r[3], scale on the
\* diagonal (corners with an even sum, so that the halves are whole).
SetAsBox(x1, y1, z1, x2, y2, z2) ==
    << <<Abs(x2 - x1), 0, 0, 0>>,
       <<0, Abs(y2 - y1), 0, 0>>,
       <<0, 0, Abs(z2 - z1), 0>>,
       <<(x1 + x2) \div 2, (y1 + y2) \div 2, (z1 + z2) \div 2, 1>> >>

\* layerMask = ~0: every bit set, written as the two's-complement -1 (its low
\* eight bits, -1 % 256, are 255)
AllLayers == -1

\* A ModelComponent.  origin is the sub-range of pVertexBuffer that holds the
\* mesh the component was made for; every constructor takes
\* instanceIndex = numInstances++ from the static counter.
ComponentAt(vb, vbIndex, origin, instanceIndex, transform, hitShaderIndex) ==
    [pVertexBuffer |-> vb, vbIndex |-> vbIndex, instanceIndex |-> instanceIndex,
     origin |-> origin, transform |-> transform, hitShaderIndex |-> hitShaderIndex,
     layerMask |-> AllLayers]
Component(vb, vbIndex, origin) ==
    ComponentAt(vb, vbIndex, origin, ModelComponent_numInstances, XMMatrixIdentity,
                IF vb = "aabb" THEN 1 ELSE 0)

RECURSIVE Flatten(_)
Flatten(ms) == IF ms = <<>> THEN <<>> ELSE Head(ms) \o Flatten(Tail(ms))

NumComponents == Len(Flatten(models))

\* models.push_back(Model(transforms, material)) with one component, whose
\* constructor took the next ModelComponent::numInstances.
PushModel(c) ==
    /\ models' = Append(models, <<c>>)
    /\ modelTransforms' = Append(modelTransforms, XMMatrixIdentity)
    /\ ModelComponent_numInstances' = ModelComponent_numInstances + 1
    /\ numInstances' = ModelComponent_numInstances'

\* ---- Model::InitFromObj
\* std::unordered_map<Vertex, unsigned int> uniqueVertices, empty.
NoVertices == [v \in {} |-> 0]

\* The locals of InitFromObj before the loop over shapes, on VertexBuffer vb
\* with the static instance counter at counter.
ObjImport(vb, counter) ==
    [vertexBuffer |-> vb, numInstances |-> counter, components |-> <<>>, refs |-> <<>>,
     uniqueVertices |-> NoVertices, indices |-> <<>>, vertices |-> <<>>, faceRefs |-> <<>>,
     currentMaterialId |-> -1]

\* The body of "if (!indices.empty())": a component with
\* vbIndex = globalStartVBIndices.size(), then AddVerticeAndIndicesToGlobal.
WithComponent(st) ==
    LET r == AddVerticeAndIndicesToGlobal(st.vertexBuffer, st.vertices, st.indices)
        component == ComponentAt("global", Len(st.vertexBuffer.globalStartVBIndices),
                                 Len(r.vb.globalStartVBIndices) - 1, st.numInstances,
                                 XMMatrixIdentity, 0)
    IN  [st EXCEPT !.vertexBuffer = r.vb,
                   !.numInstances = @ + 1,
                   !.components = Append(@, component),
                   !.refs = Append(@, st.faceRefs)]

\* Material change inside a shape: the component, then indices.clear(),
\* vertices.clear(), uniqueVertices.clear().
MaterialChanged(st) ==
    [WithComponent(st) EXCEPT !.indices = <<>>, !.vertices = <<>>, !.faceRefs = <<>>,
                              !.uniqueVertices = NoVertices]

\* End of a shape: the component for what remains; nothing is cleared, and
\* the next shape declares indices and vertices anew.
ShapeEnd(st) == WithComponent(st)

\* One vertex of a face: pushed if uniqueVertices does not count it, and the
\* index uniqueVertices holds for it pushed.
AddFaceVertex(st, v) ==
    LET known == v \in DOMAIN st.uniqueVertices
        unique == IF known THEN st.uniqueVertices
                           ELSE st.uniqueVertices @@ (v :> Len(st.vertices))
    IN  [st EXCEPT !.uniqueVertices = unique,
                   !.vertices = IF known THEN @ ELSE Append(@, v),
                   !.indices = Append(@, unique[v]),
                   !.faceRefs = Append(@, v)]

RECURSIVE AddFaceVertices(_, _)
AddFaceVertices(st, vs) ==
    IF vs = <<>> THEN st ELSE AddFaceVertices(AddFaceVertex(st, Head(vs)), Tail(vs))

RECURSIVE ShapeFaces(_, _)
ShapeFaces(st, faces) ==
    IF faces = <<>>
      THEN st
      ELSE LET f == Head(faces)
               flushed == IF st.indices # <<>> THEN MaterialChanged(st) ELSE st
               s1 == IF f.material_id # st.currentMaterialId
                       THEN [flushed EXCEPT !.currentMaterialId = f.material_id]
                       ELSE st
           IN  ShapeFaces(AddFaceVertices(s1, f.vertices), Tail(faces))

RECURSIVE ObjShapes(_, _)
ObjShapes(st, shapes) ==
    IF shapes = <<>>
      THEN st
      ELSE LET s0 == [st EXCEPT !.indices = <<>>, !.vertices = <<>>, !.faceRefs = <<>>,
                                !.currentMaterialId = -1]
               s1 == ShapeFaces(s0, Head(shapes))
           IN  ObjShapes(IF s1.indices # <<>> THEN ShapeEnd(s1) ELSE s1, Tail(shapes))

\* Model::InitFromObj(file, .., vertexBuffer, ..): the vertex buffer after the
\* import, the components of the model, and the face vertices of each.
InitFromObj(shapes, vb, counter) == ObjShapes(ObjImport(vb, counter), shapes)

\* The loop of AddObjModelToScene over i = from .. vb.numVertexBuffers - 1.
RECURSIVE CopyOffsets(_, _, _)
CopyOffsets(datas, vb, from) ==
    IF from >= vb.numVertexBuffers
      THEN datas
      ELSE CopyOffsets(WithVertexBufferData(datas, from,
                                            vb.globalStartVBIndices[from + 1].first,
                                            vb.globalStartIBIndices[from + 1].first),
                       vb, from + 1)

\* A Scene about to be constructed, outside the frame loop.
InitStore ==
    /\ Created
    /\ pc = "Store"
    /\ storePhase = "new"

StoreFrame == UNCHANGED <<ctlVars, loopVars, ovrVars, ringVars, gpuVars, heapVars, sceneVars, trackVars>>

\* Scene(bool): the unit box is the first sub-range of globalVertexBuffer.
Store_SceneCtor ==
    /\ storePhase = "new"
    /\ SceneCtor
    /\ storePhase' = "append"
    /\ UNCHANGED <<m_globalBLAS, models, modelTransforms, instanceDescsArray, numInstances, ModelComponent_numInstances>>
    /\ StoreFrame

\* Scene(): numInstances(0) and nothing else; globalVertexBuffer holds no mesh.
Store_SceneDefaultCtor ==
    /\ storePhase = "new"
    /\ storePhase' = "bare"
    /\ UNCHANGED <<globalVertices, globalIndices, globalStartVBIndices, globalStartIBIndices, vertexBufferDatas, added,
                   numVertexBuffers, m_globalBLAS, models, modelTransforms, instanceDescsArray, numInstances,
                   ModelComponent_numInstances>>
    /\ StoreFrame

Store_AddBoxToGlobal ==
    /\ storePhase = "append"
    /\ numVertexBuffers < MaxMeshes
    /\ AddBoxToGlobal
    /\ added' = Append(added, AddedBy("AddBoxToGlobal", <<>>))
    /\ UNCHANGED vertexBufferDatas
    /\ UNCHANGED <<m_globalBLAS, models, modelTransforms, instanceDescsArray, numInstances, ModelComponent_numInstances, storePhase>>
    /\ StoreFrame

\* VertexBuffer::AddGlobalObj
Store_AddGlobalObj ==
    /\ storePhase = "append"
    /\ numVertexBuffers < MaxMeshes
    /\ \E raw \in ObjFiles :
        LET m == ObjLoad(raw, <<>>, <<>>) IN AppendToGlobal(m.vertices, m.indices)
    /\ added' = Append(added, AddedBy("AddGlobalObj", <<>>))
    /\ UNCHANGED vertexBufferDatas
    /\ UNCHANGED <<m_globalBLAS, models, modelTransforms, instanceDescsArray, numInstances, ModelComponent_numInstances, storePhase>>
    /\ StoreFrame

\* Scene::AddObjModelToScene, the model it returns pushed to the scene's models:
\*   numModels = globalVertexBuffer.numVertexBuffers;
\*   Model::InitFromObj(fileName, texturesDir, globalVertexBuffer, ..);
\*   vertexBufferDatas[i] = {globalStartVBIndices[i].first, globalStartIBIndices[i].first}
Store_AddObjModelToScene ==
    /\ storePhase = "append"
    /\ \E shapes \in ObjModels :
        LET numModels == numVertexBuffers
            r == InitFromObj(shapes, globalVertexBuffer, ModelComponent_numInstances)
        IN  /\ r.vertexBuffer.numVertexBuffers <= MaxMeshes
            /\ NumComponents + Len(r.components) <= MaxComponents
            /\ Becomes(r.vertexBuffer)
            /\ vertexBufferDatas' = CopyOffsets(vertexBufferDatas, r.vertexBuffer, numModels)
            /\ added' = added \o [k \in DOMAIN r.refs |-> AddedBy("AddObjModelToScene", r.refs[k])]
            /\ models' = Append(models, r.components)
            /\ modelTransforms' = Append(modelTransforms, XMMatrixIdentity)
            /\ ModelComponent_numInstances' = r.numInstances
            /\ numInstances' = ModelComponent_numInstances'
    /\ UNCHANGED <<m_globalBLAS, instanceDescsArray, storePhase>>
    /\ StoreFrame

\* ModelComponent(x1, .., color, &globalVertexBuffer): a box, vbIndex = 0.
Store_AddBoxComponent ==
    /\ storePhase = "append"
    /\ NumComponents < MaxComponents
    /\ PushModel(Component("global", 0, 0))
    /\ UNCHANGED <<globalVertices, globalIndices, globalStartVBIndices, globalStartIBIndices, vertexBufferDatas, added,
                   numVertexBuffers, m_globalBLAS, instanceDescsArray, storePhase>>
    /\ StoreFrame

\* ModelComponent(mat, identity, &aabbVertexBuffer, 0, 1, ~0): the sphere.
Store_AddSphereComponent ==
    /\ storePhase = "append"
    /\ NumComponents < MaxComponents
    /\ PushModel(Component("aabb", 0, 0))
    /\ UNCHANGED <<globalVertices, globalIndices, globalStartVBIndices, globalStartIBIndices, vertexBufferDatas, added,
                   numVertexBuffers, m_globalBLAS, instanceDescsArray, storePhase>>
    /\ StoreFrame

\* InitGlobalVertexBuffers: the arrays are uploaded; the builds follow.
Store_InitGlobalVertexBuffers ==
    /\ storePhase = "append"
    /\ storePhase' = "blas"
    /\ UNCHANGED <<globalVertices, globalIndices, globalStartVBIndices, globalStartIBIndices, vertexBufferDatas, added,
                   numVertexBuffers, m_globalBLAS, models, modelTransforms, instanceDescsArray, numInstances, ModelComponent_numInstances>>
    /\ StoreFrame

\* One iteration of InitGlobalBottomLevelAccelerationObject (i = the number
\* of structures pushed so far).  For a geometry without indices the driver
\* may report a zero size, and ThrowIfFalse ends the process.
Store_BuildBlas ==
    /\ storePhase = "blas"
    /\ Len(m_globalBLAS.global) < Len(globalStartIBIndices)
    /\ LET i == Len(m_globalBLAS.global) IN
        \E sized \in (IF GeometryDesc(i).IndexCount = 0 THEN BOOLEAN ELSE {TRUE}) :
            IF sized
              THEN /\ m_globalBLAS' = [m_globalBLAS EXCEPT !.global = Append(@, NewBlas(i))]
                   /\ storePhase' = storePhase
              ELSE /\ m_globalBLAS' = m_globalBLAS
                   /\ storePhase' = "exit"
    /\ UNCHANGED <<globalVertices, globalIndices, globalStartVBIndices, globalStartIBIndices, vertexBufferDatas, added,
                   numVertexBuffers, models, modelTransforms, instanceDescsArray, numInstances, ModelComponent_numInstances>>
    /\ StoreFrame

\* InitGlobalBottomLevelAccelerationObject on the store of Scene():
\* reserve(0), the loop guard i < globalStartIBIndices.size() is false at
\* i = 0, and the function returns.
Store_BuildBlasBare ==
    /\ storePhase = "bare"
    /\ ~(Len(m_globalBLAS.global) < Len(globalStartIBIndices))
    /\ storePhase' = "bareBuilt"
    /\ UNCHANGED <<globalVertices, globalIndices, globalStartVBIndices, globalStartIBIndices, vertexBufferDatas, added,
                   numVertexBuffers, m_globalBLAS, models, modelTransforms, instanceDescsArray, numInstances,
                   ModelComponent_numInstances>>
    /\ StoreFrame

\* aabbVertexBuffer.InitAABBBottomLevelAccelerationObject()
Store_BuildAabbBlas ==
    /\ storePhase = "blas"
    /\ Len(m_globalBLAS.global) = Len(globalStartIBIndices)
    /\ m_globalBLAS' = [m_globalBLAS EXCEPT !.aabb = Append(@, NewAabbBlas)]
    /\ storePhase' = "instances"
    /\ UNCHANGED <<globalVertices, globalIndices, globalStartVBIndices, globalStartIBIndices, vertexBufferDatas, added,
                   numVertexBuffers, models, modelTransforms, instanceDescsArray, numInstances, ModelComponent_numInstances>>
    /\ StoreFrame

\* The instance loop of Scene::BuildAccelerationStructures.
\* D3D12_RAYTRACING_INSTANCE_DESC(): all zero.
ZeroDesc ==
    [Transform |-> << <<0, 0, 0, 0>>, <<0, 0, 0, 0>>, <<0, 0, 0, 0>> >>,
     InstanceID |-> 0, InstanceMask |-> 0, InstanceContributionToHitGroupIndex |-> 0,
     AccelerationStructure |-> 0, vertexBufferId |-> 0]
\* An update that starts from a default-constructed descriptor.
WithTransform_Reset(desc, M) ==
    [ZeroDesc EXCEPT !.Transform = SubSeq(XMMatrixTranspose(M), 1, 3)]
\* Scene::UpdateInstanceTransform: rows 0..2 of the transposed matrix are
\* copied over Transform[0..2]; nothing else of the descriptor is written.
WithTransform(desc, M) ==
    [desc EXCEPT !.Transform = SubSeq(XMMatrixTranspose(M), 1, 3)]
\* Scene::UpdateInstancePosition: the last column of Transform.
WithPosition(desc, position) ==
    [desc EXCEPT !.Transform[1][4] = position[1],
                 !.Transform[2][4] = position[2],
                 !.Transform[3][4] = position[3]]
\* Model::SetPosition: the first three numbers of r[3].
SetPosition(transform, position) ==
    [transform EXCEPT ![4] = <<position[1], position[2], position[3], @[4]>>]
\* The world transform of the instance loop:
\*   XMMatrixMultiply(models[i].transform, models[i].components[j].transform)
WorldTransform(model, component) == XMMatrixMultiply(model, component)
\* One iteration of the instance loop (the model's transform is the identity
\* its constructor set).  InstanceMask is a field of 8 bits, InstanceID of 24;
\* vertexBufferId is the entry's instanceData[index].vertexBufferId.
InstanceDesc(index, c) ==
    [WithTransform(ZeroDesc, WorldTransform(XMMatrixIdentity, c.transform)) EXCEPT
        !.InstanceMask = c.layerMask % 256,
        !.InstanceID = index % 16777216,
        !.AccelerationStructure = m_globalBLAS[c.pVertexBuffer][c.vbIndex + 1].addr,
        !.InstanceContributionToHitGroupIndex = c.hitShaderIndex % 16777216,
        !.vertexBufferId = c.vbIndex]

\* What new D3D12_RAYTRACING_INSTANCE_DESC[n] may hold in an element the loop
\* never assigns: the array is not value-initialised.
UninitialisedDescs ==
    { ZeroDesc,
      [ZeroDesc EXCEPT !.InstanceID = 16777215, !.InstanceMask = 255,
                       !.AccelerationStructure = -1] }

\* A copy that rotates what the buffer held instead of taking the data.
UpdateUploadBuffer_Rotate(buffer, data, count) ==
    [k \in DOMAIN buffer |-> buffer[(k % Len(buffer)) + 1]]
\* DirectX12::UpdateUploadBuffer: Map, memcpy(pMappedData, pData, datasize), Unmap.
UpdateUploadBuffer(buffer, data, count) ==
    [k \in DOMAIN buffer |-> IF k <= count THEN data[k] ELSE buffer[k]]
\* DirectX12::AllocateUploadBuffer: a new buffer of count elements holding the data.
AllocateUploadBuffer(data, count) == [k \in 1 .. count |-> data[k]]

\* instanceDescsArray = new D3D12_RAYTRACING_INSTANCE_DESC[numInstances]; one
\* element per component is assigned, in the order of models; then
\* AllocateUploadBuffer copies all numInstances elements.
Store_BuildAccelerationStructures ==
    /\ storePhase = "instances"
    /\ \E unset \in UninitialisedDescs :
         instanceDescsArray' =
           [k \in 1 .. numInstances |->
               IF k <= NumComponents THEN InstanceDesc(k - 1, Flatten(models)[k]) ELSE unset]
    /\ instanceDescs' = AllocateUploadBuffer(instanceDescsArray', numInstances)
    /\ dirty' = {}
    /\ storePhase' = "built"
    /\ UNCHANGED <<globalVertices, globalIndices, globalStartVBIndices, globalStartIBIndices, vertexBufferDatas, added,
                   numVertexBuffers, m_globalBLAS, models, modelTransforms, numInstances, ModelComponent_numInstances>>
    /\ UNCHANGED <<ctlVars, loopVars, ovrVars, ringVars, gpuVars, heapVars, m_sceneCB,
                   cbGpuAddress, trackVars>>

NextStore ==
    \/ Store_SceneCtor \/ Store_SceneDefaultCtor \/ Store_BuildBlasBare
    \/ Store_AddBoxToGlobal \/ Store_AddGlobalObj \/ Store_AddObjModelToScene
    \/ Store_AddBoxComponent \/ Store_AddSphereComponent
    \/ Store_InitGlobalVertexBuffers \/ Store_BuildBlas \/ Store_BuildAabbBlas
    \/ Store_BuildAccelerationStructures

SpecStore == InitStore /\ [][NextStore]_vars

\* ================================================= properties of SpecStore
RECURSIVE SumCounts(_)
SumCounts(ranges) ==
    IF ranges = <<>> THEN 0 ELSE Head(ranges).second + SumCounts(Tail(ranges))

Disjoint(a, b) == a.first + a.second <= b.first \/ b.first + b.second <= a.first

Partition(ranges, total) ==
    /\ ranges # <<>> => ranges[1].first = 0
    /\ \A i \in 2 .. Len(ranges) : ranges[i].first = ranges[i - 1].first + ranges[i - 1].second
    /\ \A i, j \in DOMAIN ranges : i # j => Disjoint(ranges[i], ranges[j])
    /\ SumCounts(ranges) = total

\* C8: after every sequence of appends the recorded sub-ranges of the vertex
\* array, and of the index array, are pairwise disjoint and contiguous from 0,
\* and their counts sum to the array's size.
C8_SubRangesPartition ==
    /\ Partition(globalStartVBIndices, Len(globalVertices))
    /\ Partition(globalStartIBIndices, Len(globalIndices))
    /\ Len(globalStartVBIndices) = numVertexBuffers
    /\ Len(globalStartIBIndices) = numVertexBuffers

\* Four appends of three kinds, one of them without a vertex of its own.
C8_Witness ==
    /\ numVertexBuffers = 4
    /\ \E i \in DOMAIN globalStartVBIndices : globalStartVBIndices[i].second = 0
    /\ \E i \in DOMAIN globalStartVBIndices : globalStartVBIndices[i].second = 2
    /\ globalStartIBIndices[4].first > BoxIndexCount
    /\ Len(globalVertices) > BoxVertexCount

SubRange(i) ==
    [IndexBuffer  |-> globalStartIBIndices[i].first,
     IndexCount   |-> globalStartIBIndices[i].second,
     VertexBuffer |-> globalStartVBIndices[i].first,
     VertexCount  |-> globalStartVBIndices[i].second]

\* C9: once the bottom-level structures and the instance table are built,
\* BLAS i is built from exactly sub-range i, every instance descriptor refers
\* to the BLAS of the sub-range its component originates from, and instances
\* of different sub-ranges refer to different BLASes.
C9_BlasPerSubRange ==
    storePhase = "built" =>
        LET comps == Flatten(models) IN
        /\ Len(m_globalBLAS.global) = Len(globalStartIBIndices)
        /\ \A i \in DOMAIN m_globalBLAS.global : m_globalBLAS.global[i].geometry = SubRange(i)
        /\ \A k \in DOMAIN comps :
              instanceDescsArray[k].AccelerationStructure =
                  m_globalBLAS[comps[k].pVertexBuffer][comps[k].origin + 1].addr
        /\ \A k1, k2 \in DOMAIN comps :
              <<comps[k1].pVertexBuffer, comps[k1].origin>>
                  # <<comps[k2].pVertexBuffer, comps[k2].origin>>
              => instanceDescsArray[k1].AccelerationStructure
                  # instanceDescsArray[k2].AccelerationStructure

\* Three structures and three instances built: a box, a mesh and the sphere.
C9_Witness ==
    /\ storePhase = "built"
    /\ Len(m_globalBLAS.global) >= 3
    /\ Len(instanceDescsArray) = 3
    /\ \E k \in DOMAIN instanceDescsArray : Flatten(models)[k].pVertexBuffer = "aabb"
    /\ \E k \in DOMAIN instanceDescsArray : Flatten(models)[k].origin >= 2
    /\ \E k \in DOMAIN instanceDescsArray :
          /\ Flatten(models)[k].pVertexBuffer = "global"
          /\ Flatten(models)[k].origin = 0

\* C14: building the bottom-level structures of a vertex store to which no
\* mesh was appended is rejected: the build never completes on such a store.
C14_EmptyBuildRejected ==
    ~(storePhase \in {"bareBuilt", "instances", "built"} /\ Len(globalStartIBIndices) = 0)

IsPrefix(a, b) == Len(a) <= Len(b) /\ SubSeq(b, 1, Len(a)) = a

\* C15: appending a mesh never changes the recorded (offset, count) pair or
\* the stored vertices and indices of a mesh appended before, and no recorded
\* sub-range is removed or reused during a session.
C15_AppendsPreserve ==
    [][/\ IsPrefix(globalStartVBIndices, globalStartVBIndices')
       /\ IsPrefix(globalStartIBIndices, globalStartIBIndices')
       /\ IsPrefix(globalVertices, globalVertices')
       /\ IsPrefix(globalIndices, globalIndices')
       /\ numVertexBuffers' >= numVertexBuffers]_vars

\* A mesh of four vertices and six indices appended after the box and one
\* other mesh, all three still recorded where they were put.
C15_Witness ==
    /\ numVertexBuffers = 3
    /\ globalStartVBIndices[1] = [first |-> 0, second |-> BoxVertexCount]
    /\ globalStartIBIndices[1] = [first |-> 0, second |-> BoxIndexCount]
    /\ globalStartVBIndices[3].second = 4
    /\ globalStartIBIndices[3].second = 6
    /\ SubSeq(globalVertices, 1, BoxVertexCount) = BoxVertices
    /\ SubSeq(globalIndices, 1, BoxIndexCount) = BoxIndices

\* Sub-ranges (from 0) that an OBJ import appended.
ObjSubRanges == {i \in 0 .. (Len(added) - 1) : added[i + 1].by = "AddObjModelToScene"}

\* Index j (from 1) of sub-range i is below the sub-range's vertex count and
\* designates the vertex the face referenced.
IndexDesignates(i, j) ==
    LET ib == globalStartIBIndices[i + 1]
        vb == globalStartVBIndices[i + 1]
        index == globalIndices[ib.first + j]
    IN  /\ index < vb.second
        /\ globalVertices[vb.first + index + 1] = added[i + 1].refs[j]

\* C23: for every component InitFromObj produced, whatever the number of
\* shapes and materials of the file, each index stored in the component's
\* sub-range is smaller than the sub-range's vertex count and designates a
\* vertex equal to the one the OBJ face referenced.
C23_IndicesDesignateFaceVertices ==
    \A i \in ObjSubRanges :
        /\ globalStartIBIndices[i + 1].second = Len(added[i + 1].refs)
        /\ \A j \in 1 .. globalStartIBIndices[i + 1].second : IndexDesignates(i, j)

\* Sub-ranges (from 0) added through Scene(bool) or AddObjModelToScene.
SceneSubRanges ==
    {i \in 0 .. (Len(added) - 1) : added[i + 1].by \in {"Scene", "AddObjModelToScene"}}

\* The components the OBJ imports created, as a set.
ObjComponents ==
    {Flatten(models)[k] : k \in {n \in 1 .. NumComponents :
        /\ Flatten(models)[n].pVertexBuffer = "global"
        /\ Flatten(models)[n].origin \in ObjSubRanges}}

\* C30: for every sub-range i added through the Scene constructor or
\* AddObjModelToScene, vertexBufferDatas[i] holds sub-range i's vertex start
\* offset and index start offset; every sub-range an OBJ import appended has
\* its component, and the component's vbIndex is that sub-range's index.
C30_OffsetsAndVbIndex ==
    /\ \A i \in SceneSubRanges :
          /\ i \in DOMAIN vertexBufferDatas
          /\ vertexBufferDatas[i].vertexOffset = globalStartVBIndices[i + 1].first
          /\ vertexBufferDatas[i].indexOffset = globalStartIBIndices[i + 1].first
    /\ {c.origin : c \in ObjComponents} = ObjSubRanges
    /\ \A c \in ObjComponents : c.vbIndex = c.origin

\* The box, a mesh appended by AddGlobalObj, then an OBJ model of two
\* components with their sub-ranges 2 and 3.
C30_Witness ==
    /\ numVertexBuffers = 4
    /\ added[2].by = "AddGlobalObj"
    /\ ObjSubRanges = {2, 3}
    /\ \E m \in DOMAIN models :
          Len(models[m]) = 2 /\ models[m][1].vbIndex = 2 /\ models[m][2].vbIndex = 3
    /\ vertexBufferDatas[3].indexOffset = globalStartIBIndices[4].first
    /\ vertexBufferDatas[3].indexOffset > BoxIndexCount + 3
    /\ vertexBufferDatas[3].vertexOffset # vertexBufferDatas[3].indexOffset
    /\ 1 \notin DOMAIN vertexBufferDatas

\* ================================================= SpecHeap
Logged(op, h) == <<[op |-> op, handle |-> h], heapLog[1]>>

HeapFrame == UNCHANGED <<waitRet, Running, runs, iter, loopVars, ovrVars, ringVars,
                         gpuVars, storeVars, sceneVars, trackVars>>

\* A DescHandleProvider just constructed on a heap of MaxHandleCount descriptors.
InitHeap ==
    /\ Created
    /\ pc = "Heap"
    /\ storePhase = "program"

\* DescHandleProvider::AllocCpuHandle
Heap_AllocCpuHandle ==
    /\ pc = "Heap"
    /\ IF Len(FreeHandles) > 0
         THEN /\ heapLog' = Logged("alloc", PickFree(FreeHandles))
              /\ FreeHandles' = SubSeq(FreeHandles, 1, Len(FreeHandles) - 1)
              /\ UNCHANGED <<NextAvailableCpuHandle, CurrentHandleCount, pc>>
         ELSE IF HasCapacity(CurrentHandleCount)
                THEN /\ heapLog' = Logged("alloc", NextAvailableCpuHandle)
                     /\ NextAvailableCpuHandle' = NextAvailableCpuHandle + IncrementSize
                     /\ CurrentHandleCount' = CurrentHandleCount + 1
                     /\ UNCHANGED <<FreeHandles, pc>>
                ELSE /\ pc' = "HeapFatal"
                     /\ heapLog' = Logged("fatal", 0)
                     /\ UNCHANGED <<NextAvailableCpuHandle, CurrentHandleCount, FreeHandles>>
    /\ UNCHANGED bufferSRV
    /\ HeapFrame

\* Handles the callers hold: every one handed out so far.
HandedOut == {k * IncrementSize : k \in 0 .. (CurrentHandleCount - 1)}

\* DescHandleProvider::FreeCpuHandle
Heap_FreeCpuHandle ==
    /\ pc = "Heap"
    /\ Len(FreeHandles) < MaxFreeHandles
    /\ \E h \in HandedOut :
        /\ FreeHandles' = Append(FreeHandles, h)
        /\ heapLog' = Logged("free", h)
    /\ UNCHANGED <<NextAvailableCpuHandle, CurrentHandleCount, pc, bufferSRV>>
    /\ HeapFrame

\* The provider as one value, for the calls that allocate more than once.
Provider == [next |-> NextAvailableCpuHandle, count |-> CurrentHandleCount,
             free |-> FreeHandles, max |-> MaxHandleCount]

\* Values an uninitialised UINT local may hold.
Indeterminate == 0 .. MaxHandleCount

\* DirectX12::CreateBufferSRV: the handle goes to the buffer, the index to the caller.
CreateBufferSRV(p, undef) == AllocCpuHandle(p, undef)

\* VertexBuffer::InitGlobalVertexBuffers: the index buffer's SRV, then the
\* vertex buffer's, then ThrowIfFalse(descriptorIndexVB == descriptorIndexIB + 1).
Heap_InitGlobalVertexBuffers ==
    /\ pc = "Heap"
    /\ \E u1 \in Indeterminate, u2 \in Indeterminate :
         LET ib == CreateBufferSRV(Provider, u1)
             vb == CreateBufferSRV(ib.p, u2)
             q == IF ib.ok THEN vb.p ELSE ib.p
         IN /\ NextAvailableCpuHandle' = q.next
            /\ CurrentHandleCount' = q.count
            /\ FreeHandles' = q.free
            /\ IF ~ib.ok
                 THEN /\ pc' = "HeapFatal"
                      /\ heapLog' = Logged("fatal", 0)
                      /\ UNCHANGED bufferSRV
                 ELSE IF ~vb.ok
                        THEN /\ pc' = "HeapFatal"
                             /\ heapLog' = <<[op |-> "fatal", handle |-> 0],
                                             [op |-> "alloc", handle |-> ib.handle]>>
                             /\ bufferSRV' = [bufferSRV EXCEPT !.ib = ib.handle]
                        ELSE /\ heapLog' = <<[op |-> "alloc", handle |-> vb.handle],
                                             [op |-> "alloc", handle |-> ib.handle]>>
                             /\ bufferSRV' = [ib |-> ib.handle, vb |-> vb.handle]
                             /\ pc' = IF vb.index = ib.index + 1 THEN "Heap" ELSE "HeapExit"
    /\ HeapFrame

NextHeap == Heap_AllocCpuHandle \/ Heap_FreeCpuHandle \/ Heap_InitGlobalVertexBuffers

SpecHeap == InitHeap /\ [][NextHeap]_vars

\* C10: an AllocCpuHandle that directly follows a FreeCpuHandle returns the
\* handle just freed, whether or not unused heap capacity remains.
C10_FreeThenAllocReturnsSame ==
    (heapLog[1].op = "alloc" /\ heapLog[2].op = "free")
        => heapLog[1].handle = heapLog[2].handle

\* Free then alloc with capacity left and older frees of other handles pending.
C10_Witness ==
    /\ heapLog[1].op = "alloc"
    /\ heapLog[2].op = "free"
    /\ CurrentHandleCount < MaxHandleCount
    /\ FreeHandles # <<>>
    /\ FreeHandles[1] # heapLog[1].handle

\* The descriptors of the heap, as handles.
HeapSlots == {k * IncrementSize : k \in 0 .. (MaxHandleCount - 1)}

\* C11: a provider never hands out more than MaxHandleCount distinct heap
\* slots: every handle AllocCpuHandle returns is one of the heap's slots, the
\* watermark never passes the capacity, and an AllocCpuHandle made with an
\* empty free list and MaxHandleCount handles taken ends the process.
C11_CapacityAborts ==
    /\ [](heapLog[1].op = "alloc" => heapLog[1].handle \in HeapSlots)
    /\ [](CurrentHandleCount <= MaxHandleCount)
    /\ [][(FreeHandles = <<>> /\ FreeHandles' = <<>>
           /\ CurrentHandleCount = MaxHandleCount)
          => (pc' = "HeapFatal" /\ heapLog'[1].op = "fatal"
              /\ CurrentHandleCount' = CurrentHandleCount)]_vars

\* The process ended on an allocation from a full heap with nothing freed.
C11_Witness ==
    /\ pc = "HeapFatal"
    /\ heapLog[1].op = "fatal"
    /\ heapLog[2].op = "alloc"
    /\ CurrentHandleCount = MaxHandleCount
    /\ FreeHandles = <<>>

\* C22: whenever InitGlobalVertexBuffers returns, the vertex buffer's
\* descriptor occupies the heap slot right after the index buffer's; when the
\* two slots allocated are not adjacent in that order the process has ended.
C22_VBFollowsIB ==
    (pc = "Heap" /\ bufferSRV.ib # NoHandle /\ bufferSRV.vb # NoHandle)
        => bufferSRV.vb = bufferSRV.ib + IncrementSize

\* ===================================================================
\* SpecScene: the instance table, its upload buffer and the scene constant
\* buffers over the scenes a process builds: new SceneSphere(false),
\* Init(false), the frame loop's updates and ray dispatches, delete scene,
\* and the next MainLoop that Run starts.

MaxBuilds == 15
\* Scenes built in SpecModel, where the model updates are called.
MaxModelBuilds == 2
\* The largest number a model transform may hold.
MaxCoordinate == 60

MAX_INSTANCES == 400
\* sizeof(Scene::InstanceData): two UINT, an XMFLOAT2, an XMFLOAT4
SizeofInstanceData == 32
\* offsetof(SceneConstantBuffer, instanceData): an XMMATRIX and an XMVECTOR
OffsetofInstanceData == 80
\* sizeof(SceneConstantBuffer): 80 + 400 * 32 + 4 * 32 + 400 * 16 + 60 * 16
\* = 20368, rounded up to alignas(256)
SizeofSceneConstantBuffer == 20480

\* The box components SceneSphere::Init constructs after the sphere: 2 hands,
\* 3 walls, 2 floors, 1 ceiling and 36 pieces of furniture.
SceneBoxes == 44

BoxComponent(instanceIndex, k) ==
    ComponentAt("global", 0, 0, instanceIndex, SetAsBox(-k, -1, -1, k, 1, 3), 0)
SphereComponent(instanceIndex) ==
    ComponentAt("aabb", 0, 0, instanceIndex, XMMatrixIdentity, 1)
\* The models of SceneSphere::Init when the static counter stands at first:
\* the sphere, the two hands, and the room.
SceneModels(first) ==
    << <<SphereComponent(first)>>,
       [k \in 1 .. 2 |-> BoxComponent(first + k, k)],
       [k \in 1 .. (SceneBoxes - 2) |-> BoxComponent(first + 2 + k, 2 + k)] >>

InitScene ==
    /\ Created
    /\ pc = "Scene"
    /\ storePhase = "new"

\* SpecModel: a scene as SceneSphere::Init builds it, the frame loop's
\* instance updates and the three model updates of Scene called on it.
InitModel ==
    /\ Created
    /\ pc = "Model"
    /\ storePhase = "new"

InScene == pc \in {"Scene", "Model"}
SceneBuilds == IF pc = "Model" THEN MaxModelBuilds ELSE MaxBuilds

\* A scene that counts the components its own Init constructed.
SceneNumInstances_OwnComponents(counter) == 1 + SceneBoxes
\* numInstances = ModelComponent::numInstances;
SceneNumInstances(counter) == counter

ScenePhases == {"built", "committed", "tlas", "eyes"}

\* SceneSphere::Init up to InitGlobalVertexBuffers; the builds follow.
Scn_Init ==
    /\ InScene
    /\ storePhase = "append"
    /\ runs < SceneBuilds
    /\ runs' = runs + 1
    /\ models' = SceneModels(ModelComponent_numInstances)
    /\ modelTransforms' = [m \in DOMAIN models' |-> XMMatrixIdentity]
    /\ ModelComponent_numInstances' = ModelComponent_numInstances + 1 + SceneBoxes
    /\ numInstances' = SceneNumInstances(ModelComponent_numInstances')
    /\ storePhase' = "blas"
    /\ UNCHANGED <<globalVertices, globalIndices, globalStartVBIndices, globalStartIBIndices, vertexBufferDatas, added,
                   numVertexBuffers, m_globalBLAS, instanceDescsArray>>
    /\ UNCHANGED <<pc, waitRet, Running, iter, loopVars, ovrVars, ringVars, gpuVars,
                   heapVars, sceneVars, trackVars>>

SceneFrame ==
    UNCHANGED <<ctlVars, loopVars, ovrVars, ringVars, gpuVars, heapVars, trackVars,
                globalVertices, globalIndices, globalStartVBIndices, globalStartIBIndices, vertexBufferDatas, added,
                numVertexBuffers, m_globalBLAS, models, modelTransforms, numInstances,
                ModelComponent_numInstances>>

\* The instances the frame loop moves: the cube (0) and the two hands (1, 2).
UpdateTargets == {0, 1, 2}
Positions == { <<9, 3, 5>> }
Matrices == { << <<2, 0, 0, 0>>, <<0, 3, 0, 0>>, <<0, 7, 4, 0>>, <<6, 5, 8, 1>> >> }

Scn_UpdateInstancePosition ==
    /\ InScene
    /\ storePhase = "built"
    /\ \E i \in UpdateTargets \cap {0} : \E position \in Positions :
        /\ instanceDescsArray' =
               [instanceDescsArray EXCEPT ![i + 1] = WithPosition(@, position)]
        /\ dirty' = dirty \cup {i}
    /\ UNCHANGED <<instanceDescs, m_sceneCB, cbGpuAddress, storePhase>>
    /\ SceneFrame

Scn_UpdateInstanceTransform ==
    /\ InScene
    /\ storePhase = "built"
    /\ \E i \in UpdateTargets \ {0} : \E transformMatrix \in Matrices :
        /\ instanceDescsArray' =
               [instanceDescsArray EXCEPT ![i + 1] = WithTransform(@, transformMatrix)]
        /\ dirty' = dirty \cup {i}
    /\ UNCHANGED <<instanceDescs, m_sceneCB, cbGpuAddress, storePhase>>
    /\ SceneFrame

\* ---- the model updates of Scene
\* The loop of a model update: UpdateInstanceTransform(components[i].instanceIndex,
\* world[i]) for each component in turn; of two writes to one entry the later
\* stays.  A write beyond the array changes no entry of it.
WithModelWritten(descs, components, world) ==
    [k \in DOMAIN descs |->
        LET writers == {i \in DOMAIN components : components[i].instanceIndex = k - 1} IN
        IF writers = {}
          THEN descs[k]
          ELSE WithTransform(descs[k], world[CHOOSE i \in writers : \A j \in writers : j <= i])]

\* The entries a model update writes.
InstanceIndices(components) == {components[i].instanceIndex : i \in DOMAIN components}

\* modelIndex as the caller passes it: a model of the scene, or one past the last.
ModelIndices == 0 .. Len(models)

Bounded(M) == \A i, j \in 1 .. 4 : Abs(M[i][j]) <= MaxCoordinate

\* What a model update leaves: the model's transform and the instance
\* entries of its components; "if (modelIndex < models.size())" else nothing.
ModelUpdated(modelIndex, transform, world) ==
    /\ InScene
    /\ storePhase = "built"
    /\ IF modelIndex < Len(models)
         THEN /\ Bounded(transform)
              /\ modelTransforms' = [modelTransforms EXCEPT ![modelIndex + 1] = transform]
              /\ instanceDescsArray' =
                     WithModelWritten(instanceDescsArray, models[modelIndex + 1], world)
              /\ dirty' = dirty \cup InstanceIndices(models[modelIndex + 1])
         ELSE UNCHANGED <<modelTransforms, instanceDescsArray, dirty>>
    /\ UNCHANGED <<instanceDescs, m_sceneCB, cbGpuAddress, storePhase>>
    /\ UNCHANGED <<ctlVars, loopVars, ovrVars, ringVars, gpuVars, heapVars, trackVars,
                   globalVertices, globalIndices, globalStartVBIndices, globalStartIBIndices,
                   vertexBufferDatas, added, numVertexBuffers, m_globalBLAS, models,
                   numInstances, ModelComponent_numInstances>>

\* The transform of model modelIndex and of its components (the identity
\* stands in where modelIndex names no model).
TransformOf(modelIndex) ==
    IF modelIndex < Len(models) THEN modelTransforms[modelIndex + 1] ELSE XMMatrixIdentity
ComponentsOf(modelIndex) ==
    IF modelIndex < Len(models) THEN models[modelIndex + 1] ELSE <<>>

\* Scene::UpdateModelPosition: SetPosition, then model transform times
\* component transform for each component.
Scn_UpdateModelPosition ==
    \E modelIndex \in ModelIndices : \E position \in Positions :
        LET transform == SetPosition(TransformOf(modelIndex), position)
            components == ComponentsOf(modelIndex)
        IN  ModelUpdated(modelIndex, transform,
                [i \in DOMAIN components |->
                    XMMatrixMultiply(transform, components[i].transform)])

\* Scene::ApplyModelTransformation: the transformation times the model's
\* transform, then model transform times component transform.
Scn_ApplyModelTransformation ==
    \E modelIndex \in ModelIndices : \E transformation \in Matrices :
        LET transform == XMMatrixMultiply(transformation, TransformOf(modelIndex))
            components == ComponentsOf(modelIndex)
        IN  ModelUpdated(modelIndex, transform,
                [i \in DOMAIN components |->
                    XMMatrixMultiply(transform, components[i].transform)])

\* Scene::UpdateModelTransformation: the model's transform is replaced, then
\* component transform times model transform.
Scn_UpdateModelTransformation ==
    \E modelIndex \in ModelIndices : \E transform \in Matrices :
        LET components == ComponentsOf(modelIndex)
        IN  ModelUpdated(modelIndex, transform,
                [i \in DOMAIN components |->
                    XMMatrixMultiply(components[i].transform, transform)])

Scn_UpdateInstanceDescs ==
    /\ pc = "Scene"
    /\ storePhase \in {"built", "tlas"}
    /\ instanceDescs' = UpdateUploadBuffer(instanceDescs, instanceDescsArray, numInstances)
    /\ dirty' = {}
    /\ storePhase' = "committed"
    /\ UNCHANGED <<instanceDescsArray, m_sceneCB, cbGpuAddress>>
    /\ SceneFrame

\* Scene::UpdateTLAS records a build that reads instanceDescs; it writes no
\* CPU-side data.
Scn_UpdateTLAS ==
    /\ pc = "Scene"
    /\ storePhase = "committed"
    /\ storePhase' = "tlas"
    /\ UNCHANGED <<instanceDescsArray, sceneVars>>
    /\ SceneFrame

\* for (eye = 0; ...): the eye loop starts.
Scn_RenderEyes ==
    /\ pc = "Scene"
    /\ storePhase = "tlas"
    /\ storePhase' = "eyes"
    /\ eye' = 0
    /\ UNCHANGED <<instanceDescsArray, sceneVars>>
    /\ UNCHANGED <<ctlVars, retryCreate, result, ret, sessionStatus, frameIndex, texIdx,
                   blasIdx, alive, transient, ovrVars, ringVars, gpuVars, heapVars, trackVars,
                   globalVertices, globalIndices, globalStartVBIndices,
                   globalStartIBIndices, vertexBufferDatas, added, numVertexBuffers, m_globalBLAS, models, modelTransforms,
                   numInstances, ModelComponent_numInstances>>

SlotIndex(e, f) == e * SwapChainNumFrames + f
Min(a, b) == IF a < b THEN a ELSE b

\* The bytes of the instance-data memcpy that land beyond element s, counted
\* from the start of element t > s.
Overrun(s, t, count) ==
    OffsetofInstanceData + count * SizeofInstanceData - (t - s) * SizeofSceneConstantBuffer

\* m_perFrameConstants[ActiveContext]->GetGPUVirtualAddress()
\*     + SwapChainFrameIndex * sizeof(m_mappedConstantData[0][0])
CbGpuAddress(e, f) == [buffer |-> e, offset |-> f * SizeofSceneConstantBuffer]

EyePositions == {7}

\* SetActiveContext(eye) and Scene::DoRaytracing: the camera and numInstances
\* elements of instanceData are written into m_sceneCB[ActiveContext]
\* [SwapChainFrameIndex], starting at its instanceData member and running on
\* for numInstances * sizeof(InstanceData) bytes.
Scn_DoRaytracing ==
    /\ pc = "Scene"
    /\ storePhase = "eyes"
    /\ eye < 2
    /\ ActiveContext' = eye
    /\ \E eyePos \in EyePositions :
        LET s == SlotIndex(ActiveContext', SwapChainFrameIndex) IN
        m_sceneCB' =
            [t \in SceneCBSlots |->
                IF t = s
                  THEN [eyePosition |-> eyePos,
                        instanceData |-> Min(numInstances, MAX_INSTANCES),
                        overrun |-> 0]
                  ELSE IF t > s /\ Overrun(s, t, numInstances) > 0
                         THEN [m_sceneCB[t] EXCEPT
                                 !.overrun = Min(Overrun(s, t, numInstances),
                                                 SizeofSceneConstantBuffer)]
                         ELSE m_sceneCB[t]]
    /\ cbGpuAddress' = CbGpuAddress(ActiveContext', SwapChainFrameIndex)
    /\ eye' = eye + 1
    /\ UNCHANGED <<instanceDescsArray, instanceDescs, dirty, storePhase>>
    /\ UNCHANGED <<ctlVars, retryCreate, result, ret, sessionStatus, frameIndex, texIdx,
                   blasIdx, alive, transient, ovrVars, SwapChainFrameIndex,
                   CommandListSubmitted, PresentFenceValue, PresentFenceWaitValue, cmdList,
                   listOpen, gpuVars, heapVars, trackVars,
                   globalVertices, globalIndices, globalStartVBIndices,
                   globalStartIBIndices, vertexBufferDatas, added, numVertexBuffers, m_globalBLAS, models, modelTransforms,
                   numInstances, ModelComponent_numInstances>>

\* SubmitCommandListAndPresent and InitFrame: the ring moves on.
Scn_Present ==
    /\ pc = "Scene"
    /\ storePhase = "eyes"
    /\ eye = 2
    /\ SwapChainFrameIndex' = (SwapChainFrameIndex + 1) % SwapChainNumFrames
    /\ storePhase' = "built"
    /\ UNCHANGED <<instanceDescsArray, sceneVars>>
    /\ UNCHANGED <<ctlVars, loopVars, ovrVars, ActiveContext, CommandListSubmitted,
                   PresentFenceValue, PresentFenceWaitValue, cmdList, listOpen, gpuVars,
                   heapVars, trackVars, globalVertices, globalIndices, globalStartVBIndices,
                   globalStartIBIndices, vertexBufferDatas, added, numVertexBuffers, m_globalBLAS, models, modelTransforms,
                   numInstances, ModelComponent_numInstances>>

\* Done: delete scene, ReleaseDevice; MainLoop returns and Run calls it again,
\* where InitDevice starts the ring at the swap chain's first buffer.
Scn_Done ==
    /\ InScene
    /\ storePhase = "built" \/ (storePhase = "eyes" /\ eye = 2)
    /\ runs < SceneBuilds
    /\ DeleteScene
    /\ instanceDescs' = <<>>
    /\ dirty' = {}
    /\ m_sceneCB' = [s \in SceneCBSlots |-> FreshSceneCB]
    /\ cbGpuAddress' = NoAddress
    /\ storePhase' = "new"
    /\ SwapChainFrameIndex' = 0
    /\ UNCHANGED <<ctlVars, loopVars, ovrVars, ActiveContext, CommandListSubmitted,
                   PresentFenceValue, PresentFenceWaitValue, cmdList, listOpen, gpuVars,
                   heapVars, trackVars>>

NextScene ==
    \/ Store_SceneCtor \/ Scn_Init
    \/ Store_BuildBlas \/ Store_BuildAabbBlas \/ Store_BuildAccelerationStructures
    \/ Scn_UpdateInstancePosition \/ Scn_UpdateInstanceTransform
    \/ Scn_UpdateInstanceDescs \/ Scn_UpdateTLAS
    \/ Scn_RenderEyes \/ Scn_DoRaytracing \/ Scn_Present \/ Scn_Done

SpecScene == InitScene /\ [][NextScene]_vars

NextModel ==
    \/ Store_SceneCtor \/ Scn_Init
    \/ Store_BuildBlas \/ Store_BuildAabbBlas \/ Store_BuildAccelerationStructures
    \/ Scn_UpdateInstancePosition \/ Scn_UpdateInstanceTransform
    \/ Scn_UpdateModelPosition \/ Scn_ApplyModelTransformation
    \/ Scn_UpdateModelTransformation
    \/ Scn_Done

SpecModel == InitModel /\ [][NextModel]_vars

\* ================================================= properties of SpecScene
\* Everything of a descriptor but its Transform.
NonTransform(desc) == [desc EXCEPT !.Transform = ZeroDesc.Transform]
SameBuffer == DOMAIN instanceDescs' = DOMAIN instanceDescs

\* C12: updating instance i's transform (UpdateInstanceTransform or
\* UpdateInstancePosition) and then committing with UpdateInstanceDescs
\* changes only the transform of entry i of the instance-descriptor buffer:
\* an upload changes no entry that was not updated since the upload before
\* it, and of an updated entry nothing but the transform; the updates
\* themselves write nothing to the buffer.
C12_OnlyTransformOfUpdated ==
    [][(storePhase \in ScenePhases /\ storePhase' \in ScenePhases /\ SameBuffer) =>
        /\ \A k \in DOMAIN instanceDescs :
              /\ (k - 1) \notin dirty => instanceDescs'[k] = instanceDescs[k]
              /\ NonTransform(instanceDescs'[k]) = NonTransform(instanceDescs[k])
        /\ dirty' # {} => instanceDescs' = instanceDescs]_vars

\* The cube's position and a hand's matrix were updated and uploaded: both
\* entries carry the new transform and their own ID, mask, hit group and BLAS.
C12_Witness ==
    /\ storePhase = "committed"
    /\ runs = 1
    /\ instanceDescs[1].Transform[1][4] = 9
    /\ instanceDescs[1].InstanceID = 0
    /\ instanceDescs[1].InstanceContributionToHitGroupIndex = 1
    /\ instanceDescs[1].AccelerationStructure = m_globalBLAS.aabb[1].addr
    /\ instanceDescs[2].Transform = << <<2, 0, 0, 6>>, <<0, 3, 7, 5>>, <<0, 0, 4, 8>> >>
    /\ instanceDescs[2].InstanceID = 1
    /\ instanceDescs[2].InstanceMask = 255
    /\ instanceDescs[2].AccelerationStructure = m_globalBLAS.global[1].addr
    /\ instanceDescs[3] = InstanceDesc(2, Flatten(models)[3])

\* C13: UpdateInstanceDescs followed by UpdateTLAS, repeated with no instance
\* update in between, is idempotent: an upload made while no entry was
\* updated since the upload before it leaves the instance-descriptor buffer
\* as it was, and UpdateTLAS does not write the buffer.
C13_CommitIdempotent ==
    [][/\ (storePhase \in {"built", "tlas"} /\ storePhase' = "committed" /\ dirty = {})
            => instanceDescs' = instanceDescs
       /\ (storePhase = "committed" /\ storePhase' = "tlas")
            => instanceDescs' = instanceDescs]_vars

BuiltComponents == Flatten(models)

\* The third frame's upload, with uploads and TLAS updates before it and no
\* instance ever updated: the buffer holds what the build left.
C13_Witness ==
    /\ storePhase = "committed"
    /\ runs = 1
    /\ SwapChainFrameIndex = 2
    /\ dirty = {}
    /\ \A k \in DOMAIN BuiltComponents :
          instanceDescs[k] = InstanceDesc(k - 1, BuiltComponents[k])
    /\ instanceDescs = instanceDescsArray
    /\ m_sceneCB[SlotIndex(1, 1)].eyePosition # 0

\* C18: after every scene build of the process the instance table has exactly
\* one initialised entry per component: numInstances is the number of
\* components of all models, modelTransforms, and each component's instanceIndex is the index
\* of its own entry.
C18_OneEntryPerComponent ==
    storePhase \in ScenePhases =>
        /\ numInstances = Len(BuiltComponents)
        /\ Len(instanceDescsArray) = Len(BuiltComponents)
        /\ \A k \in DOMAIN BuiltComponents :
              /\ BuiltComponents[k].instanceIndex = k - 1
              /\ instanceDescsArray[k].InstanceID = BuiltComponents[k].instanceIndex

\* C19: the instance count used for the TLAS build and for the per-frame copy
\* of instance data into the scene constant buffer is at most MAX_INSTANCES.
C19_CountWithinCapacity ==
    storePhase \in ScenePhases => numInstances <= MAX_INSTANCES

\* C20: DoRaytracing for eye e while the ring is at slot f writes only
\* m_sceneCB[e][f] and binds the address of that slot; the slots of the other
\* eye and of the other ring slots are left as they were.
C20_WritesOwnSlotOnly ==
    [][(storePhase = "eyes" /\ eye' = eye + 1) =>
        /\ \A t \in SceneCBSlots \ {SlotIndex(eye, SwapChainFrameIndex)} :
              m_sceneCB'[t] = m_sceneCB[t]
        /\ m_sceneCB'[SlotIndex(eye, SwapChainFrameIndex)].eyePosition \in EyePositions
        /\ cbGpuAddress' = [buffer |-> eye,
                            offset |-> SwapChainFrameIndex * SizeofSceneConstantBuffer]]_vars

\* ================================================= properties of SpecModel
\* The Transform BuildAccelerationStructures writes for a component of a
\* model: rows 0..2 of the transposed product of model and component transform.
BuiltTransform(model, component) ==
    SubSeq(XMMatrixTranspose(WorldTransform(model, component)), 1, 3)

\* C28: UpdateModelPosition, ApplyModelTransformation and
\* UpdateModelTransformation write, for every component of the model they
\* address, the world transform BuildAccelerationStructures computes from the
\* model's and the component's current transforms: whenever a step changes a
\* model's transform, the entry of each of its components holds that product
\* afterwards.
C28_SameWorldTransform ==
    [][\A m \in DOMAIN models :
          (/\ models' = models
           /\ storePhase = "built"
           /\ modelTransforms'[m] # modelTransforms[m])
          => \A i \in DOMAIN models[m] :
                instanceDescsArray'[models[m][i].instanceIndex + 1].Transform
                    = BuiltTransform(modelTransforms'[m], models[m][i].transform)]_vars

\* C29: every instance index written by UpdateInstancePosition or
\* UpdateInstanceTransform, from the frame loop or through a model update
\* with a component's instanceIndex, is below numInstances, the length of
\* the instance-descriptor array.
C29_WritesBelowNumInstances ==
    storePhase = "built" =>
        /\ Len(instanceDescsArray) = numInstances
        /\ \A i \in dirty : i < numInstances

\* In the second scene of the process the frame loop has written entries 0
\* and 2 and a model update has written the entries of the hands' model,
\* whose instanceIndex values continue the first scene's.
C29_Witness ==
    /\ pc = "Model"
    /\ storePhase = "built"
    /\ runs = 2
    /\ {0, 2} \subseteq dirty
    /\ InstanceIndices(models[2]) \subseteq dirty
    /\ \A i \in InstanceIndices(models[2]) : i > SceneBoxes

====
